---- MODULE Spec2Model ----
(***************************************************************************)
(* A model of the document parser of doc_analysis:                         *)
(*   - DocxParser.parse_by_heading (parser/docx.py), the heading-style     *)
(*     walk over the body elements of a Word package;                      *)
(*   - WordNumberingExtractor (parser/numbering.py), the list numbering    *)
(*     tables, the per-list counters and the registry of used paths.       *)
(* Strings are sequences of one-character strings, so that formatting      *)
(* (str(), ".".join, f-strings, rstrip) is computed, not assumed.          *)
(***************************************************************************)
EXTENDS Integers, Sequences, FiniteSets, TLC

(***************************************************************************)
(* Bounds of the model and constants of the program.                       *)
(***************************************************************************)

\* settings.max_heading_level
max_heading_level == 9

\* the deepest list level whose counter the code clears: range(level + 1, 9)
LIST_LEVEL_END == 9

\* number of body elements of a document
MaxElems == 4

\* number of body elements of a document made of headings
MaxHeadings == 6

\* deepest heading level that occurs in the documents
MaxInputLevel == 3

\* relationships of the package that point to an image part
NumRels == 3

\* distinct file names among the image parts
NumFiles == 2

\* deepest list indent level that occurs in the documents
MaxIlvl == 1

\* body elements of a document made of list paragraphs
MaxListElems == 7

\* body elements of a document whose lists have no level template
MaxFallbackElems == 5

\* body elements of a document with embedded images
MaxImageElems == 4

\* get_number_info calls made on one extractor
MaxCalls == 4

\* SpecModes: the elements of a document parsed in either mode
MaxModeElems == 4

\* SpecContent: the elements of a document with mixed content
MaxContentElems == 4

\* SpecDecode: the elements of a document whose package has image parts that
\* fail to decode
MaxDecodeElems == 3

\* SpecReuse: the elements of a document parsed by one of two parser
\* instances
MaxReuseElems == 2

\* SpecTables: the rows and columns of a grid of cell texts
MaxTableRows == 2
MaxTableCols == 2

\* SpecFormats: the largest number of body elements of a document
MaxFormatElems == 3

\* SpecExtract: the largest number of body elements of a document
MaxExtractElems == 4

\* SpecTitles: the largest number of body elements of a document
MaxTitleElems == 4

\* SpecMalformed: the largest number of body elements of a document
MaxMalformedElems == 4

\* SpecRender: the largest number of blocks of a renderer
MaxBlocks == 3

\* SpecStyles: the largest number of body elements of a document
MaxStyleElems == 3

\* SpecApi: the requests received, the document ids asked for, and the
\* elements of an uploaded document
MaxRequests == 2
MaxDocId == 2
MaxApiElems == 2

\* Settings.max_file_size_mb
max_file_size_mb == 50

(***************************************************************************)
(* Strings.                                                                *)
(***************************************************************************)

\* Python None where the other values are records or dicts
None == [none |-> TRUE]

\* an Optional number or string: Nothing is None, Some(v) is the value v
Nothing == <<>>

Some(v) == <<v>>

Digits == <<"0", "1", "2", "3", "4", "5", "6", "7", "8", "9">>

IsDigit(c) == \E i \in 1..10 : Digits[i] = c

DigitValue(c) == (CHOOSE i \in 1..10 : Digits[i] = c) - 1

RECURSIVE Str(_)
\* str(n) for n >= 0: the decimal digits of n
Str(n) == IF n < 10 THEN <<Digits[n + 1]>>
          ELSE Str(n \div 10) \o <<Digits[(n % 10) + 1]>>

RECURSIVE Join(_, _)
\* sep.join(parts)
Join(sep, parts) ==
    IF parts = <<>> THEN <<>>
    ELSE IF Len(parts) = 1 THEN parts[1]
    ELSE parts[1] \o sep \o Join(sep, Tail(parts))

\* ".".join(parts)
DotJoin(parts) == Join(<<".">>, parts)

RECURSIVE Repeat(_, _)
\* s * n
Repeat(s, n) == IF n <= 0 THEN <<>> ELSE s \o Repeat(s, n - 1)

RECURSIVE RStripDots(_)
\* s.rstrip(".")
RStripDots(s) ==
    IF s # <<>> /\ s[Len(s)] = "." THEN RStripDots(SubSeq(s, 1, Len(s) - 1))
    ELSE s

\* the elements of a sequence
Range(s) == {s[i] : i \in 1..Len(s)}

\* the text of the body element at position i (its characters are opaque)
TextOf(i) == <<"t">> \o Str(i)

(***************************************************************************)
(* The state.                                                              *)
(***************************************************************************)

VARIABLES
    abstract_nums,     \* WordNumberingExtractor._abstract_nums
    num_to_abstract,   \* WordNumberingExtractor._num_to_abstract
    ex_counters,       \* WordNumberingExtractor._counters
    used_paths,        \* WordNumberingExtractor._used_paths (its keys)
    returned,          \* the number_path of every NumberInfo returned so far
    counters,          \* parse_by_heading: counters
    current_context,   \* parse_by_heading: current_context
    list_state,        \* parse_by_heading: list_state
    images,            \* DocxParser._images
    rel_to_image,      \* DocxParser._rel_to_image
    assigned_images,   \* parse_by_heading: assigned_images
    current_section,   \* DocxParser.current_section
    sections,          \* DocxParser.sections
    body,              \* the body elements read so far, in order
    body_limit,        \* the largest number of body elements of a document
    pc,                \* "idle"; "loop": inside the walk of parse_by_heading,
                       \* "done": it returned; "native": inside the walk of
                       \* parse, "parsed": it returned; "raised": the parse
                       \* ended with an exception
    parsed_docs,       \* the ParsedDocuments returned by earlier parses of the
                       \* parser instance
    sections_id,       \* the identity of the list object bound to self.sections
    db,                \* the database: documents, sections and next ids
    upload,            \* the upload the parse endpoint is working on (None: none)
    response,          \* the response sent last (None: none yet)
    request_count,     \* the number of requests received so far
    undecodable,       \* the rIds of the relationships of the package whose
                       \* target part cannot be read or encoded
    pool,              \* a second DocxParser instance, and whether its steps
                       \* interleaved with the open call (None: one instance only)
    table_rows,        \* the argument of a call of renderer.table_to_html
    table_html,        \* what the call returned (Nothing: no call yet)
    content_blocks     \* RichTextRenderer.content_blocks of the renderer in use

extractor_vars == <<abstract_nums, num_to_abstract, ex_counters, used_paths, returned>>

parser_vars == <<counters, current_context, list_state, images, rel_to_image,
                 assigned_images, current_section, sections, body, body_limit, pc>>

\* what one parse does not touch: earlier results and the service around it
outer_vars == <<parsed_docs, sections_id, db, upload, response, request_count,
                undecodable, pool, table_rows, table_html, content_blocks>>

\* what the service around the parser does not touch
kept_vars == <<parsed_docs, sections_id, undecodable, pool, table_rows, table_html, content_blocks>>

vars == <<abstract_nums, num_to_abstract, ex_counters, used_paths, returned,
          counters, current_context, list_state, images, rel_to_image,
          assigned_images, current_section, sections, body, body_limit, pc,
          parsed_docs, sections_id, db, upload, response, request_count,
          undecodable, pool, table_rows, table_html, content_blocks>>

(***************************************************************************)
(* WordNumberingExtractor: the numbering tables of the package.            *)
(***************************************************************************)

\* an empty dict
EmptyDict == [k \in {} |-> None]

\* LevelDef(ilvl, start, fmt, lvl_text)
LevelDef(ilvl, start, fmt, lvl_text) ==
    [ilvl |-> ilvl, start |-> start, fmt |-> fmt, lvl_text |-> lvl_text]

\* a package without a numbering part: _parse_numbering_part leaves both tables empty
NoNumbering == [abstract_nums |-> EmptyDict, num_to_abstract |-> EmptyDict]

\* a package with a numbering part: abstractNum 0 is a decimal outline ("%1.",
\* "%1.%2."), abstractNum 1 is a bullet list whose level 1 is numbered "%2)" from 3;
\* num 1 -> abstractNum 0, num 2 -> abstractNum 1, num 3 -> an abstractNum that
\* is not defined
StdNumbering ==
    [abstract_nums |->
        (0 :> (0 :> LevelDef(0, 1, "decimal", <<"%", "1", ".">>) @@
               1 :> LevelDef(1, 1, "decimal", <<"%", "1", ".", "%", "2", ".">>)) @@
         1 :> (0 :> LevelDef(0, 1, "bullet", <<"o">>) @@
               1 :> LevelDef(1, 3, "decimal", <<"%", "2", ")">>))),
     num_to_abstract |-> (1 :> 0 @@ 2 :> 1 @@ 3 :> 7)]

\* the numbering parts of the packages considered
NumberingParts == {NoNumbering, StdNumbering}

\* the list ids (numId) that occur in paragraphs: 0 is the value used when the
\* numId element is absent
NumIds == {0, 1, 2}

\* dict.get(k): the value at k, None when k is no key
Get(d, k) == IF k \in DOMAIN d THEN d[k] ELSE None

\* WordNumberingExtractor._get_level_def
GetLevelDef(abs_nums, num_to_abs, num_id, ilvl) ==
    IF num_id \notin DOMAIN num_to_abs THEN None
    ELSE LET abstract_num_id == num_to_abs[num_id]
         IN  IF abstract_num_id \notin DOMAIN abs_nums THEN None
             ELSE Get(abs_nums[abstract_num_id], ilvl)

RECURSIVE DigitRunEnd(_, _)
\* the position of the last digit of the run of digits of s that starts at i
DigitRunEnd(s, i) ==
    IF i < Len(s) /\ IsDigit(s[i + 1]) THEN DigitRunEnd(s, i + 1) ELSE i

RECURSIVE IntOf(_)
\* int(s) for a string of digits
IntOf(s) == IF s = <<>> THEN 0
            ELSE 10 * IntOf(SubSeq(s, 1, Len(s) - 1)) + DigitValue(s[Len(s)])

RECURSIVE FindAll(_, _)
\* list(re.finditer(r"%(\d+)", s)) from position i on: the matches left to
\* right, each with its text (group 0) and the number it names (group 1)
FindAll(s, i) ==
    IF i > Len(s) THEN <<>>
    ELSE IF s[i] = "%" /\ i < Len(s) /\ IsDigit(s[i + 1])
         THEN LET e == DigitRunEnd(s, i + 1)
              IN  <<[text |-> SubSeq(s, i, e), num |-> IntOf(SubSeq(s, i + 1, e))]>>
                  \o FindAll(s, e + 1)
         ELSE FindAll(s, i + 1)

\* s.replace(old, new, 1): the first occurrence of old in s replaced by new
ReplaceFirst(s, old, new) ==
    LET hits == {i \in 1..(Len(s) - Len(old) + 1) : SubSeq(s, i, i + Len(old) - 1) = old}
    IN  IF hits = {} THEN s
        ELSE LET i == CHOOSE h \in hits : \A g \in hits : h <= g
             IN  SubSeq(s, 1, i - 1) \o new \o SubSeq(s, i + Len(old), Len(s))

\* cs[idx] of a Python list: a negative index counts from the end
PyIndex(cs, idx) == IF idx >= 0 THEN cs[idx + 1] ELSE cs[Len(cs) + idx + 1]

RECURSIVE Substitute(_, _, _)
\* the loop of _generate_from_template over the matches
Substitute(result, matches, cs) ==
    IF matches = <<>> THEN result
    ELSE LET m == Head(matches)
             idx == m.num - 1
         IN  Substitute(IF idx < Len(cs)
                        THEN ReplaceFirst(result, m.text, Str(PyIndex(cs, idx)))
                        ELSE result,
                        Tail(matches), cs)

\* WordNumberingExtractor._generate_from_template
GenerateFromTemplate(template, cs) ==
    RStripDots(Substitute(template, FindAll(template, 1), cs))

(***************************************************************************)
(* WordNumberingExtractor.get_number_info.                                 *)
(***************************************************************************)

\* the numbering reference of a paragraph: numPr with its ilvl and numId
NumPr(num_id, ilvl) == [num_id |-> num_id, ilvl |-> ilvl]

\* the counters of one list after "del self._counters[numId][level]" for
\* every level in range(ilvl + 1, 9)
ClearDeeper(cs, ilvl) ==
    [l \in {k \in DOMAIN cs : ~(k >= ilvl + 1 /\ k < LIST_LEVEL_END)} |-> cs[l]]

\* an advance that keeps the counts of the deeper levels
AdvanceKeepingDeeper(cs, ilvl, first) ==
    LET prev == IF ilvl \in DOMAIN cs THEN cs[ilvl] ELSE first - 1
    IN  [l \in (DOMAIN cs) \cup {ilvl} |-> IF l = ilvl THEN prev + 1 ELSE cs[l]]

\* the counters of one list after the current level is initialised to first - 1
\* when absent, and incremented
Advance(cs, ilvl, first) ==
    LET cleared == ClearDeeper(cs, ilvl)
        prev == IF ilvl \in DOMAIN cleared THEN cleared[ilvl] ELSE first - 1
    IN  [l \in (DOMAIN cleared) \cup {ilvl} |-> IF l = ilvl THEN prev + 1 ELSE cleared[l]]

RECURSIVE CountsUpTo(_, _, _)
\* [cs[lvl] for lvl in range(from, ilvl + 1) if lvl in cs]
CountsUpTo(cs, from, ilvl) ==
    IF from > ilvl THEN <<>>
    ELSE (IF from \in DOMAIN cs THEN <<cs[from]>> ELSE <<>>) \o CountsUpTo(cs, from + 1, ilvl)

\* [str(c) for c in cs]
StrAll(cs) == [i \in 1..Len(cs) |-> Str(cs[i])]

\* the path generated for (numId, ilvl) from the advanced counters cs, before
\* duplicate handling
GeneratedPath(level_def, cs, ilvl) ==
    IF level_def = None
    THEN DotJoin(StrAll(CountsUpTo(cs, 0, ilvl)))
    ELSE GenerateFromTemplate(level_def.lvl_text, CountsUpTo(cs, 0, ilvl))

RECURSIVE WithSuffix(_, _, _)
\* the while loop of the duplicate handling, entered with final_path in used
WithSuffix(number_path, used, suffix) ==
    LET final_path == number_path \o <<".">> \o Str(suffix)
    IN  IF final_path \in used THEN WithSuffix(number_path, used, suffix + 1)
        ELSE final_path

\* a duplicate handling that starts at the suffix 2
UniquePathFromTwo(number_path, used) ==
    IF number_path \in used THEN WithSuffix(number_path, used, 2) ELSE number_path

\* a duplicate handling that tries one suffix only
UniquePathOnce(number_path, used) ==
    IF number_path \in used THEN number_path \o <<".">> \o Str(1) ELSE number_path

\* the final path: number_path itself, or number_path.k for the first k >= 1
\* such that number_path.k is not in the registry
UniquePath(number_path, used) ==
    IF number_path \in used THEN WithSuffix(number_path, used, 1) ELSE number_path

\* get_number_info(paragraph) for a paragraph whose numbering reference is
\* numPr (None: no pPr or no numPr), on the counters cnts and the registry
\* used: the NumberInfo returned (None: none) and the counters and registry
\* afterwards
NumberInfoOf(numPr, cnts, used) ==
    IF numPr = None
    THEN [info |-> None, counters |-> cnts, used_paths |-> used]
    ELSE LET numId == numPr.num_id
             ilvl == numPr.ilvl
             old == IF numId \in DOMAIN cnts THEN cnts[numId] ELSE EmptyDict
             level_def == GetLevelDef(abstract_nums, num_to_abstract, numId, ilvl)
             cs == Advance(old, ilvl, IF level_def = None THEN 1 ELSE level_def.start)
             final_path == UniquePath(GeneratedPath(level_def, cs, ilvl), used)
         IN  [info |-> [num_id |-> numId, ilvl |-> ilvl, number_path |-> final_path],
              counters |-> [n \in (DOMAIN cnts) \cup {numId} |->
                               IF n = numId THEN cs ELSE cnts[n]],
              used_paths |-> used \cup {final_path}]

\* a call of get_number_info on the extractor
GetNumberInfo(numPr) ==
    /\ pc = "idle"
    /\ Len(returned) < MaxCalls
    /\ LET r == NumberInfoOf(numPr, ex_counters, used_paths)
       IN  /\ ex_counters' = r.counters
           /\ used_paths' = r.used_paths
           /\ returned' = Append(returned, r.info)
    /\ UNCHANGED <<abstract_nums, num_to_abstract>>
    /\ UNCHANGED parser_vars
    /\ UNCHANGED outer_vars

(***************************************************************************)
(* The package and its body elements.                                      *)
(***************************************************************************)

\* doc.part.rels.values(): relationship r has rId r and targets an image part
\* in its own directory (target_ref is kept as its "/"-separated components);
\* the base names repeat after NumFiles relationships; decodes: reading the
\* blob of the target part and encoding it raises nothing
PackageRels ==
    [r \in 1..NumRels |->
        [rId |-> r, is_image |-> TRUE,
         target_ref |-> <<Str(r), <<"f">> \o Str(((r - 1) % NumFiles) + 1)>>,
         decodes |-> r \notin undecodable]]

\* rel.target_ref.split("/")[-1]
BaseName(target_ref) == target_ref[Len(target_ref)]

\* RenderedImage(filename, mime_type, base64_data): the payload is that of the
\* part the relationship targets
RenderedImage(rel) ==
    [filename |-> BaseName(rel.target_ref),
     mime_type |-> <<"i", "m", "a", "g", "e", "/", "p", "n", "g">>,
     base64_data |-> Str(rel.rId), width |-> None, height |-> None]

RECURSIVE ExtractUntilFailure(_)
\* an extraction that ends at the first relationship that fails to decode
ExtractUntilFailure(rels) ==
    IF rels = <<>> THEN <<>>
    ELSE IF Head(rels).is_image /\ ~Head(rels).decodes THEN <<>>
    ELSE (IF Head(rels).is_image THEN <<RenderedImage(Head(rels))>> ELSE <<>>)
         \o ExtractUntilFailure(Tail(rels))

RECURSIVE ExtractAllImages(_)
\* DocxParser._extract_all_images: one image per image relationship, in
\* order; an exception raised inside the try block (lines 477-501) is logged
\* and the loop goes on with the next relationship
ExtractAllImages(rels) ==
    IF rels = <<>> THEN <<>>
    ELSE (IF Head(rels).is_image /\ Head(rels).decodes
          THEN <<RenderedImage(Head(rels))>> ELSE <<>>)
         \o ExtractAllImages(Tail(rels))

\* the first image of imgs whose filename is name (None when there is none)
FirstByName(imgs, name) ==
    LET hits == {i \in 1..Len(imgs) : imgs[i].filename = name}
    IN  IF hits = {} THEN None
        ELSE imgs[CHOOSE h \in hits : \A g \in hits : h <= g]

\* the mapping built at lines 262-269: rId -> the first image with the base
\* name of the relationship's target
BuildRelToImage(rels, imgs) ==
    LET keys == {i \in 1..Len(rels) :
                    /\ rels[i].is_image
                    /\ FirstByName(imgs, BaseName(rels[i].target_ref)) # None}
    IN  [r \in {rels[i].rId : i \in keys} |->
            FirstByName(imgs, BaseName(rels[CHOOSE i \in keys : rels[i].rId = r].target_ref))]

\* str.lower() of one character, for the letters that occur in style names
LowerChar(c) ==
    CASE c = "H" -> "h"
      [] c = "N" -> "n"
      [] c = "L" -> "l"
      [] c = "P" -> "p"
      [] c = "A" -> "a"
      [] c = "D" -> "d"
      [] c = "O" -> "o"
      [] c = "C" -> "c"
      [] c = "X" -> "x"
      [] OTHER -> c

\* str.lower()
Lower(s) == SubSeq([i \in 1..Len(s) |-> LowerChar(s[i])], 1, Len(s))

\* sub in s
Contains(s, sub) ==
    \E i \in 1..(Len(s) - Len(sub) + 1) : \A k \in 1..Len(sub) : s[i + k - 1] = sub[k]

\* the style names of the documents
HeadingStyle(k) == <<"H", "e", "a", "d", "i", "n", "g", " ">> \o Str(k)

NormalStyle == <<"N", "o", "r", "m", "a", "l">>

ListStyle == <<"L", "i", "s", "t">>

\* a paragraph element: its style name (Nothing: no style), whether its stripped
\* text is non-empty, whether it holds a drawing, the embed ids of its blips
\* in order, and its numbering reference (its own or its style's; None: none)
Para(style, text, drawing, blips, numPr) ==
    [kind |-> "p", style |-> style, text |-> text, drawing |-> drawing,
     blips |-> blips, numPr |-> numPr]

\* a table element with its rows of cell texts
Tbl(rows) == [kind |-> "tbl", rows |-> rows]

\* a body element that is neither a paragraph nor a table (sectPr)
Other == [kind |-> "other"]

(***************************************************************************)
(* DocxParser: classification of a paragraph.                              *)
(***************************************************************************)

\* "heading {level}"
HeadingNeedle(level) == <<"h", "e", "a", "d", "i", "n", "g", " ">> \o Str(level)

RECURSIVE HeadingLevelLast(_, _)
\* a loop over the levels that returns the last level whose needle the style
\* name contains
HeadingLevelLast(style_name, level) ==
    IF level > max_heading_level THEN 0
    ELSE LET later == HeadingLevelLast(style_name, level + 1)
         IN  IF later # 0 THEN later
             ELSE IF Contains(style_name, HeadingNeedle(level)) THEN level
             ELSE 0

RECURSIVE HeadingLevelFrom(_, _)
\* the loop over the levels from level on: the first level whose needle the
\* style name contains; 0 stands for the None returned when there is none
HeadingLevelFrom(style_name, level) ==
    IF level > max_heading_level THEN 0
    ELSE IF Contains(style_name, HeadingNeedle(level)) THEN level
    ELSE HeadingLevelFrom(style_name, level + 1)

\* DocxParser._get_heading_level on the lower-cased style name; 0 (None) also
\* when the paragraph has no style
GetHeadingLevel(style) ==
    IF style = Nothing THEN 0 ELSE HeadingLevelFrom(Lower(style[1]), 1)

\* DocxParser._get_heading_label
GetHeadingLabel(level) == <<"h">> \o Str(level)

OrderedFormats == {"decimal", "roman", "upperRoman", "lowerRoman",
                   "upperLetter", "lowerLetter", "chineseCounting"}

BulletFormats == {"bullet", "none"}

\* a list type lookup that takes a list without level definition for a bullet list
GetListTypeDefaultBullet(has_extractor, abs_nums, num_to_abs, num_id) ==
    IF ~has_extractor
    THEN (IF num_id <= 10 THEN "ordered" ELSE "bullet")
    ELSE LET level_def == GetLevelDef(abs_nums, num_to_abs, num_id, 0)
         IN  IF level_def # None /\ level_def.fmt \in OrderedFormats THEN "ordered"
             ELSE "bullet"

\* DocxParser._get_list_type_from_num_id, with the extractor's tables (the
\* extractor is None only before the first parse)
GetListTypeFromNumId(has_extractor, abs_nums, num_to_abs, num_id) ==
    IF ~has_extractor
    THEN (IF num_id <= 10 THEN "ordered" ELSE "bullet")
    ELSE LET level_def == GetLevelDef(abs_nums, num_to_abs, num_id, 0)
         IN  IF level_def # None
             THEN (IF level_def.fmt \in OrderedFormats THEN "ordered"
                   ELSE IF level_def.fmt \in BulletFormats THEN "bullet"
                   ELSE IF level_def.lvl_text # <<>> /\ "%" \in Range(level_def.lvl_text)
                        THEN "ordered"
                   ELSE "bullet")
             ELSE "ordered"

\* a numbering reference whose reading at lines 121-134 raises
\* AttributeError or TypeError
MalformedNumPr == [raises |-> "AttributeError"]

\* _get_list_info without the except clause's None: the malformed reference
\* read with the defaults of lines 133-134
GetListInfoWithDefaults(p, abs_nums, num_to_abs) ==
    IF p.numPr = None THEN None
    ELSE IF p.numPr = MalformedNumPr
    THEN [type |-> GetListTypeFromNumId(TRUE, abs_nums, num_to_abs, 0),
          level |-> 0, num_id |-> 0]
    ELSE [type |-> GetListTypeFromNumId(TRUE, abs_nums, num_to_abs, p.numPr.num_id),
          level |-> p.numPr.ilvl, num_id |-> p.numPr.num_id]

\* DocxParser._get_list_info; the error raised for a malformed reference is
\* caught at line 141 and None is returned
GetListInfo(p, abs_nums, num_to_abs) ==
    IF p.numPr = None THEN None
    ELSE IF p.numPr = MalformedNumPr THEN None
    ELSE [type |-> GetListTypeFromNumId(TRUE, abs_nums, num_to_abs, p.numPr.num_id),
          level |-> p.numPr.ilvl, num_id |-> p.numPr.num_id]

\* a formatting that indents by one space per level
FormatListItemNarrow(list_type, level, counter, text) ==
    LET indent == Repeat(<<" ">>, level)
    IN  IF list_type = "ordered"
        THEN indent \o <<"<">> \o Str(counter) \o <<">", " ">> \o text
        ELSE indent \o <<"-", " ">> \o text

\* DocxParser._format_list_item
FormatListItem(list_type, level, counter, text) ==
    LET indent == Repeat(<<" ", " ">>, level)
    IN  IF list_type = "ordered"
        THEN indent \o <<"<">> \o Str(counter) \o <<">", " ">> \o text
        ELSE indent \o <<"-", " ">> \o text

(***************************************************************************)
(* DocxParser.parse_by_heading: the pieces of the loop body.               *)
(***************************************************************************)

\* ParsedSection(heading, number_path, level, title), the rest defaulted
ParsedSection(heading, number_path, level, parent, title) ==
    [heading |-> heading, number_path |-> number_path, level |-> level,
     parent |-> parent, title |-> title, paragraphs |-> <<>>,
     marked_paragraphs |-> <<>>, tables |-> <<>>, images |-> <<>>,
     content_items |-> <<>>]

\* ContentItem(type, data)
ContentItem(type, data) == [type |-> type, data |-> data]

\* a list state that is cleared except for its counters of level 0
ListStateWithCounter ==
    [num_id |-> <<>>, list_type |-> <<>>, level |-> 0, counters |-> (0 :> 1)]

\* the list state of lines 226-231 and of every reset
FreshListState ==
    [num_id |-> Nothing, list_type |-> Nothing, level |-> 0, counters |-> EmptyDict]

\* has_images: the paragraph holds a drawing
HasImages(p) == p.drawing

\* the map from relationship ids to images after lines 260-269
RelMapAfter(p, rel_map, imgs) ==
    IF HasImages(p) /\ DOMAIN rel_map = {} THEN BuildRelToImage(PackageRels, imgs)
    ELSE rel_map

RECURSIVE CollectImages(_, _, _)
\* lines 272-281 over the blips of a paragraph: the images collected for the
\* paragraph and the set of assigned file names afterwards
CollectImages(blips, rel_map, assigned) ==
    IF blips = <<>> THEN [paragraph_images |-> <<>>, assigned |-> assigned]
    ELSE LET embed == Head(blips)
             take == /\ embed \in DOMAIN rel_map
                     /\ rel_map[embed].filename \notin assigned
             rest == CollectImages(Tail(blips), rel_map,
                        IF take THEN assigned \cup {rel_map[embed].filename} ELSE assigned)
         IN  IF take
             THEN [paragraph_images |-> <<rel_map[embed]>> \o rest.paragraph_images,
                   assigned |-> rest.assigned]
             ELSE rest

RECURSIVE CollectUntracked(_, _)
\* a collection that takes every blip that resolves to an image
CollectUntracked(blips, rel_map) ==
    IF blips = <<>> THEN <<>>
    ELSE (IF Head(blips) \in DOMAIN rel_map THEN <<rel_map[Head(blips)]>> ELSE <<>>)
         \o CollectUntracked(Tail(blips), rel_map)

\* paragraph images collected without looking at the assigned file names
ParagraphImagesUntracked(p, rel_map, assigned) ==
    [paragraph_images |-> IF HasImages(p) THEN CollectUntracked(p.blips, rel_map) ELSE <<>>,
     assigned |-> assigned]

\* lines 258-281: nothing is collected from a paragraph without a drawing
ParagraphImages(p, rel_map, assigned) ==
    IF HasImages(p) THEN CollectImages(p.blips, rel_map, assigned)
    ELSE [paragraph_images |-> <<>>, assigned |-> assigned]

\* heading counters that forget to reset the deeper levels
HeadingCountersNoReset(cs, heading_level) ==
    [l \in DOMAIN cs |-> IF l = heading_level THEN cs[l] + 1 ELSE cs[l]]

\* lines 286-291: the counter of the level is incremented, the deeper ones reset
HeadingCounters(cs, heading_level) ==
    [l \in DOMAIN cs |->
        IF l = heading_level THEN cs[l] + 1
        ELSE IF l >= heading_level + 1 /\ l < max_heading_level + 1 THEN 0
        ELSE cs[l]]

\* a number path that leaves out the level of the heading itself
NumberPathAbove(cs, heading_level) ==
    DotJoin([l \in 1..(heading_level - 1) |-> Str(cs[l])])

\* lines 293-297: the counters of levels 1..heading_level, dot-joined
NumberPath(cs, heading_level) ==
    DotJoin([l \in 1..heading_level |-> Str(cs[l])])

\* a parent lookup that takes the nearest shallower level in the context
ParentOfNearest(context, heading_level) ==
    LET above == {l \in 1..(heading_level - 1) : GetHeadingLabel(l) \in DOMAIN context}
    IN  IF above = {} THEN None
        ELSE LET l == CHOOSE a \in above : \A b \in above : b <= a
             IN  [heading |-> GetHeadingLabel(l),
                  number_path |-> context[GetHeadingLabel(l)].number_path,
                  title |-> context[GetHeadingLabel(l)].title]

\* lines 309-319: the parent of a section opened at heading_level
ParentOf(context, heading_level) ==
    IF heading_level > 1 /\ GetHeadingLabel(heading_level - 1) \in DOMAIN context
    THEN LET parent_label == GetHeadingLabel(heading_level - 1)
         IN  [heading |-> parent_label,
              number_path |-> context[parent_label].number_path,
              title |-> context[parent_label].title]
    ELSE None

\* a context that keeps the labels deeper than the new section
ContextAfterKeepingDeeper(context, heading_level, number_path, title) ==
    LET label == GetHeadingLabel(heading_level)
    IN  [k \in (DOMAIN context) \cup {label} |->
            IF k = label THEN [number_path |-> number_path, title |-> title]
            ELSE context[k]]

\* lines 321-331: the context with the new section entered and deeper labels removed
ContextAfter(context, heading_level, number_path, title) ==
    LET label == GetHeadingLabel(heading_level)
        deeper == {GetHeadingLabel(l) : l \in (heading_level + 1)..max_heading_level}
    IN  [k \in ((DOMAIN context) \cup {label}) \ deeper |->
            IF k = label THEN [number_path |-> number_path, title |-> title]
            ELSE context[k]]

\* a finalize that keeps only the sections that have paragraphs
FinalizedNonEmpty(secs, cur) ==
    IF cur # None /\ cur.paragraphs # <<>> THEN Append(secs, cur) ELSE secs

\* a finalization that puts the section in front
FinalizedFirst(secs, cur) == IF cur # None THEN <<cur>> \o secs ELSE secs

\* DocxParser._finalize_current_section: the sections list afterwards
Finalized(secs, cur) == IF cur # None THEN Append(secs, cur) ELSE secs

\* lines 395-400: the images of the paragraph attached to the section
RECURSIVE AttachImages(_, _)
AttachImages(section, paragraph_images) ==
    IF paragraph_images = <<>> THEN section
    ELSE LET image == Head(paragraph_images)
             fresh == \A i \in 1..Len(section.images) :
                         section.images[i].filename # image.filename
         IN  AttachImages(
                 IF fresh
                 THEN [section EXCEPT
                         !.images = Append(@, image),
                         !.content_items = Append(@, ContentItem("image", image))]
                 ELSE section,
                 Tail(paragraph_images))

\* a text that is put in front of the content items
AppendTextFirst(section, text, marked_text) ==
    [section EXCEPT
        !.paragraphs = Append(@, text),
        !.marked_paragraphs = Append(@, marked_text),
        !.content_items = <<ContentItem("paragraph", text)>> \o @]

\* lines 377-380 and 390-393: a text paragraph appended to the section
AppendText(section, text, marked_text) ==
    [section EXCEPT
        !.paragraphs = Append(@, text),
        !.marked_paragraphs = Append(@, marked_text),
        !.content_items = Append(@, ContentItem("paragraph", text))]

\* list counters that are kept when the list item is shallower
ListStateKeepDeeper(ls, list_info) ==
    LET started == IF ls.num_id # Some(list_info.num_id) \/ ls.list_type # Some(list_info.type)
                   THEN EmptyDict ELSE ls.counters
    IN  [num_id |-> Some(list_info.num_id), list_type |-> Some(list_info.type),
         level |-> list_info.level,
         counters |-> [l \in (DOMAIN started) \cup {list_info.level} |->
                          IF l = list_info.level
                          THEN (IF l \in DOMAIN started THEN started[l] ELSE 0) + 1
                          ELSE started[l]]]

\* lines 353-371: the list state after a list item
ListStateAfter(ls, list_info) ==
    LET started == IF ls.num_id # Some(list_info.num_id) \/ ls.list_type # Some(list_info.type)
                   THEN EmptyDict ELSE ls.counters
    IN  [num_id |-> Some(list_info.num_id), list_type |-> Some(list_info.type),
         level |-> list_info.level,
         counters |-> Advance(started, list_info.level, 1)]

(***************************************************************************)
(* DocxParser.parse_by_heading: one action per branch of the loop body.    *)
(* Every action reads the next body element e; the text of a paragraph     *)
(* with text is TextOf(its position).                                      *)
(***************************************************************************)

\* the stripped text of the paragraph read next
NextText(p) == IF p.text THEN TextOf(Len(body) + 1) ELSE <<>>

\* the element is a paragraph that is not skipped at lines 254-256
Live(e) == e.kind = "p" /\ (e.text \/ HasImages(e))

\* the loop at line 241 has an element left to read
More == pc = "loop" /\ Len(body) < body_limit

\* lines 254-256: a paragraph with neither text nor a drawing is skipped
SkipParagraph(e) ==
    /\ More
    /\ e.kind = "p" /\ ~Live(e)
    /\ body' = Append(body, e)
    /\ UNCHANGED body_limit
    /\ UNCHANGED <<counters, current_context, list_state, images, rel_to_image,
                   assigned_images, current_section, sections, pc>>
    /\ UNCHANGED extractor_vars
    /\ UNCHANGED outer_vars

\* lines 283-341: a paragraph with a heading style opens a section
HeadingParagraph(e) ==
    /\ More
    /\ Live(e)
    /\ GetHeadingLevel(e.style) # 0
    /\ LET heading_level == GetHeadingLevel(e.style)
           text == NextText(e)
           rel_map == RelMapAfter(e, rel_to_image, images)
           got == ParagraphImages(e, rel_map, assigned_images)
           cs == HeadingCounters(counters, heading_level)
           number_path == NumberPath(cs, heading_level)
           section == ParsedSection(GetHeadingLabel(heading_level), number_path,
                          heading_level, ParentOf(current_context, heading_level), text)
       IN  /\ rel_to_image' = rel_map
           /\ assigned_images' = got.assigned
           /\ counters' = cs
           /\ current_context' = ContextAfter(current_context, heading_level, number_path, text)
           /\ list_state' = FreshListState
           /\ sections' = Finalized(sections, current_section)
           /\ current_section' = section
    /\ body' = Append(body, e)
    /\ UNCHANGED body_limit
    /\ UNCHANGED <<images, pc>>
    /\ UNCHANGED extractor_vars
    /\ UNCHANGED outer_vars

\* lines 343-380 and 395-400: a list item with text, in an open section
ListItemParagraph(e) ==
    /\ More
    /\ Live(e)
    /\ GetHeadingLevel(e.style) = 0
    /\ current_section # None
    /\ GetListInfo(e, abstract_nums, num_to_abstract) # None /\ e.text
    /\ LET text == NextText(e)
           rel_map == RelMapAfter(e, rel_to_image, images)
           got == ParagraphImages(e, rel_map, assigned_images)
           list_info == GetListInfo(e, abstract_nums, num_to_abstract)
           ls == ListStateAfter(list_state, list_info)
           marked_text == FormatListItem(list_info.type, list_info.level,
                              ls.counters[list_info.level], text)
       IN  /\ rel_to_image' = rel_map
           /\ assigned_images' = got.assigned
           /\ list_state' = ls
           /\ current_section' = AttachImages(AppendText(current_section, text, marked_text),
                                     got.paragraph_images)
    /\ body' = Append(body, e)
    /\ UNCHANGED body_limit
    /\ UNCHANGED <<counters, current_context, images, sections, pc>>
    /\ UNCHANGED extractor_vars
    /\ UNCHANGED outer_vars

\* lines 382-400: a paragraph with text that is no list item, in an open section
TextParagraph(e) ==
    /\ More
    /\ Live(e)
    /\ GetHeadingLevel(e.style) = 0
    /\ current_section # None
    /\ GetListInfo(e, abstract_nums, num_to_abstract) = None /\ e.text
    /\ LET text == NextText(e)
           rel_map == RelMapAfter(e, rel_to_image, images)
           got == ParagraphImages(e, rel_map, assigned_images)
       IN  /\ rel_to_image' = rel_map
           /\ assigned_images' = got.assigned
           /\ list_state' = FreshListState
           /\ current_section' = AttachImages(AppendText(current_section, text, text),
                                     got.paragraph_images)
    /\ body' = Append(body, e)
    /\ UNCHANGED body_limit
    /\ UNCHANGED <<counters, current_context, images, sections, pc>>
    /\ UNCHANGED extractor_vars
    /\ UNCHANGED outer_vars

\* lines 343-347, 382 and 395-400: a paragraph without text (it holds a
\* drawing), in an open section: only its images are attached
ImageOnlyParagraph(e) ==
    /\ More
    /\ Live(e)
    /\ GetHeadingLevel(e.style) = 0
    /\ current_section # None
    /\ ~e.text
    /\ LET rel_map == RelMapAfter(e, rel_to_image, images)
           got == ParagraphImages(e, rel_map, assigned_images)
       IN  /\ rel_to_image' = rel_map
           /\ assigned_images' = got.assigned
           /\ current_section' = AttachImages(current_section, got.paragraph_images)
    /\ body' = Append(body, e)
    /\ UNCHANGED body_limit
    /\ UNCHANGED <<counters, current_context, list_state, images, sections, pc>>
    /\ UNCHANGED extractor_vars
    /\ UNCHANGED outer_vars

\* an orphan paragraph that is kept in a section opened for it
OrphanParagraphKept(e) ==
    /\ More
    /\ Live(e)
    /\ GetHeadingLevel(e.style) = 0
    /\ current_section = None
    /\ LET rel_map == RelMapAfter(e, rel_to_image, images)
           got == ParagraphImages(e, rel_map, assigned_images)
           opened == ParsedSection(GetHeadingLabel(1), <<>>, 1, None, <<>>)
       IN  /\ rel_to_image' = rel_map
           /\ assigned_images' = got.assigned
           /\ current_section' =
                  AttachImages(IF e.text THEN AppendText(opened, NextText(e), NextText(e))
                               ELSE opened, got.paragraph_images)
    /\ body' = Append(body, e)
    /\ UNCHANGED <<counters, current_context, list_state, images, sections, body_limit, pc>>
    /\ UNCHANGED extractor_vars
    /\ UNCHANGED outer_vars

\* lines 258-283 and 343: a paragraph that is no heading while no section is
\* open: its images are collected, nothing is attached
OrphanParagraph(e) ==
    /\ More
    /\ Live(e)
    /\ GetHeadingLevel(e.style) = 0
    /\ current_section = None
    /\ LET rel_map == RelMapAfter(e, rel_to_image, images)
           got == ParagraphImages(e, rel_map, assigned_images)
       IN  /\ rel_to_image' = rel_map
           /\ assigned_images' = got.assigned
    /\ body' = Append(body, e)
    /\ UNCHANGED body_limit
    /\ UNCHANGED <<counters, current_context, list_state, images, current_section,
                   sections, pc>>
    /\ UNCHANGED extractor_vars
    /\ UNCHANGED outer_vars

(***************************************************************************)
(* renderer.table_to_html and renderer.table_to_json.                      *)
(***************************************************************************)

\* "<name>" and "</name>"
StartTag(name) == <<"<">> \o name \o <<">">>
EndTag(name) == <<"<", "/">> \o name \o <<">">>

TableName == <<"t", "a", "b", "l", "e">>
TrName == <<"t", "r">>
ThName == <<"t", "h">>
TdName == <<"t", "d">>

RECURSIVE CellsToHtml(_, _)
\* lines 183-185: every cell of a row between the tags of its kind
CellsToHtml(row, tag) ==
    IF row = <<>> THEN <<>>
    ELSE StartTag(tag) \o Head(row) \o EndTag(tag) \o CellsToHtml(Tail(row), tag)

RECURSIVE RowsToHtml(_, _)
\* lines 181-186: the rows from index i on; th in row 0, td in the others
RowsToHtml(grid, i) ==
    IF i > Len(grid) THEN <<>>
    ELSE StartTag(TrName) \o CellsToHtml(grid[i], IF i = 1 THEN ThName ELSE TdName)
         \o EndTag(TrName) \o RowsToHtml(grid, i + 1)

\* renderer.table_to_html(rows)
TableToHtml(grid) ==
    IF grid = <<>> THEN <<>>
    ELSE StartTag(TableName) \o RowsToHtml(grid, 1) \o EndTag(TableName)

\* {"type": "text", "text": text}
TextNode(text) == [type |-> "text", text |-> text]

\* table_to_json that leaves out the cells without text
TableToJsonOfFilledCells(grid) ==
    IF grid = <<>> THEN EmptyDict
    ELSE [type |-> "table",
          content |-> [r \in 1..Len(grid) |->
              [type |-> "tableRow",
               content |-> [c \in 1..Len(SelectSeq(grid[r], LAMBDA cell : cell # <<>>)) |->
                   [type |-> "tableCell",
                    content |-> <<[type |-> "paragraph",
                                   content |-> <<TextNode(
                                       SelectSeq(grid[r], LAMBDA cell : cell # <<>>)[c])>>]>>]]]]]

\* renderer.table_to_json: a table node of one tableRow node per row, each
\* of one tableCell node per cell that holds one paragraph node with one text
\* node; {} for no rows
TableToJson(grid) ==
    IF grid = <<>> THEN EmptyDict
    ELSE [type |-> "table",
          content |-> [r \in 1..Len(grid) |->
              [type |-> "tableRow",
               content |-> [c \in 1..Len(grid[r]) |->
                   [type |-> "tableCell",
                    content |-> <<[type |-> "paragraph",
                                   content |-> <<[type |-> "text",
                                                  text |-> grid[r][c]]>>]>>]]]]]

\* str.strip() for texts whose only white space is the space
Strip(s) ==
    LET keep == {i \in 1..Len(s) : s[i] # " "}
    IN  IF keep = {} THEN <<>>
        ELSE SubSeq(s, CHOOSE i \in keep : \A j \in keep : i <= j,
                       CHOOSE i \in keep : \A j \in keep : j <= i)

\* lines 562-567: the stripped cell texts, row by row
RowsData(t) ==
    [r \in 1..Len(t.rows) |-> [c \in 1..Len(t.rows[r]) |-> Strip(t.rows[r][c])]]

\* a table processing that takes the column count from the last row
ProcessTableColsOfLastRow(t) ==
    LET rows_data == RowsData(t)
    IN  IF rows_data # <<>>
        THEN [rows |-> Len(rows_data), cols |-> Len(rows_data[Len(rows_data)]),
              html |-> TableToHtml(rows_data), json_data |-> TableToJson(rows_data)]
        ELSE None

\* DocxParser._process_table_and_return: the RenderedTable, None for a table
\* without rows
ProcessTableAndReturn(t) ==
    LET rows_data == RowsData(t)
    IN  IF rows_data # <<>>
        THEN [rows |-> Len(rows_data), cols |-> Len(rows_data[1]),
              html |-> TableToHtml(rows_data), json_data |-> TableToJson(rows_data)]
        ELSE None

(***************************************************************************)
(* renderer.RichTextRenderer: the blocks and what is rendered from them.   *)
(***************************************************************************)

\* RenderedImage.get_data_uri
GetDataUri(image) ==
    <<"d", "a", "t", "a", ":">> \o image.mime_type
    \o <<";", "b", "a", "s", "e", "6", "4", ",">> \o image.base64_data

\* the truth value of an Optional dict: None and {} are false
Truthy(d) == DOMAIN d \notin {{}, DOMAIN None}

\* RichTextRenderer.add_heading: the blocks after the call
AddHeading(blocks, text, level) ==
    Append(blocks, [type |-> "heading",
                    attrs |-> [level |-> IF level < 6 THEN level ELSE 6],
                    content |-> IF text # <<>> THEN <<TextNode(text)>> ELSE <<>>])

\* add_paragraph without the test of text.strip()
AddParagraphAny(blocks, text) ==
    Append(blocks, [type |-> "paragraph", content |-> <<TextNode(text)>>])

\* RichTextRenderer.add_paragraph
AddParagraph(blocks, text) ==
    IF Strip(text) # <<>>
    THEN Append(blocks, [type |-> "paragraph", content |-> <<TextNode(text)>>])
    ELSE blocks

\* RichTextRenderer.add_image, called without alt
AddImage(blocks, image) ==
    Append(blocks, [type |-> "image",
                    attrs |-> [src |-> GetDataUri(image), alt |-> None,
                               width |-> image.width, height |-> image.height]])

\* RichTextRenderer.add_table
AddTable(blocks, table) ==
    IF Truthy(table.json_data)
    THEN Append(blocks, table.json_data)
    ELSE Append(blocks, [type |-> "html", content |-> table.html])

RECURSIVE ExtractText(_)
\* RichTextRenderer._extract_text
ExtractText(content) ==
    IF content = <<>> THEN <<>>
    ELSE (IF Head(content).type = "text" THEN Head(content).text ELSE <<>>)
         \o ExtractText(Tail(content))

\* lines 116-127: the img element of an image block; a None alt is written
\* as the text None, absent dimensions are left out
ImageToHtml(block) ==
    <<"<", "i", "m", "g", " ", "s", "r", "c", "=", "\"">> \o block.attrs.src
    \o <<"\"", " ", "a", "l", "t", "=", "\"">>
    \o (IF block.attrs.alt = None THEN <<"N", "o", "n", "e">> ELSE block.attrs.alt)
    \o <<"\"", " ", "/", ">">>

\* lines 105-133: the markup of one block
BlockToHtml(block) ==
    IF block.type = "heading"
    THEN LET name == <<"h">> \o Str(block.attrs.level)
         IN  StartTag(name) \o ExtractText(block.content) \o EndTag(name)
    ELSE IF block.type = "paragraph"
    THEN StartTag(<<"p">>) \o ExtractText(block.content) \o EndTag(<<"p">>)
    ELSE IF block.type = "image" THEN ImageToHtml(block)
    ELSE IF block.type = "table"
    THEN (IF "html" \in DOMAIN block THEN block.html ELSE <<>>)
    ELSE IF block.type = "html" THEN block.content
    ELSE <<>>

RECURSIVE RenderHtml(_)
\* RichTextRenderer.render_html
RenderHtml(blocks) ==
    IF blocks = <<>> THEN <<>>
    ELSE BlockToHtml(Head(blocks)) \o RenderHtml(Tail(blocks))

\* RichTextRenderer.render_json
RenderJson(blocks) == [type |-> "doc", content |-> blocks]

RECURSIVE AddParagraphs(_, _)
\* routes.parse_document, lines 152-154: add_paragraph for every paragraph
AddParagraphs(blocks, paragraphs) ==
    IF paragraphs = <<>> THEN blocks
    ELSE AddParagraphs(AddParagraph(blocks, Head(paragraphs)), Tail(paragraphs))

RECURSIVE AddTables(_, _)
\* lines 156-158: add_table for every table
AddTables(blocks, tables) ==
    IF tables = <<>> THEN blocks
    ELSE AddTables(AddTable(blocks, Head(tables)), Tail(tables))

RECURSIVE AddImages(_, _)
\* lines 160-162: add_image for every image
AddImages(blocks, imgs) ==
    IF imgs = <<>> THEN blocks
    ELSE AddImages(AddImage(blocks, Head(imgs)), Tail(imgs))

\* the heading text always followed by a space and the title
HeadingTextAlways(parsed_section) ==
    parsed_section.number_path \o <<" ">> \o parsed_section.title

\* lines 146-149: the text of the heading block of a section
HeadingText(parsed_section) ==
    parsed_section.number_path
    \o (IF parsed_section.title # <<>> THEN <<" ">> \o parsed_section.title ELSE <<>>)

\* routes.parse_document, lines 143-162: the blocks of the renderer of one
\* parsed section, when content_html and content_json are rendered from it
SectionBlocks(parsed_section) ==
    LET level == IF parsed_section.level + 1 < 6 THEN parsed_section.level + 1 ELSE 6
        heading == AddHeading(<<>>, HeadingText(parsed_section), level)
        with_paragraphs == AddParagraphs(heading, parsed_section.paragraphs)
        with_tables == AddTables(with_paragraphs, parsed_section.tables)
    IN  AddImages(with_tables, parsed_section.images)

\* a renderer takes one more call
Renders == pc = "idle" /\ upload = None /\ Len(content_blocks) < MaxBlocks

\* what a call on the renderer leaves alone
RendererCall ==
    /\ UNCHANGED <<extractor_vars, parser_vars>>
    /\ UNCHANGED <<parsed_docs, sections_id, db, upload, response, request_count,
                   undecodable, pool, table_rows, table_html>>

AddHeadingCall(text, level) ==
    /\ Renders
    /\ content_blocks' = AddHeading(content_blocks, text, level)
    /\ RendererCall

AddParagraphCall(text) ==
    /\ Renders
    /\ content_blocks' = AddParagraph(content_blocks, text)
    /\ RendererCall

AddImageCall(image) ==
    /\ Renders
    /\ content_blocks' = AddImage(content_blocks, image)
    /\ RendererCall

AddTableCall(table) ==
    /\ Renders
    /\ content_blocks' = AddTable(content_blocks, table)
    /\ RendererCall

\* lines 402-408: a table is appended to the open section
TableElement(e) ==
    /\ More
    /\ e.kind = "tbl"
    /\ LET rendered_table == ProcessTableAndReturn(e)
       IN  IF rendered_table # None /\ current_section # None
           THEN current_section' =
                    [current_section EXCEPT
                        !.content_items = Append(@, ContentItem("table", rendered_table))]
           ELSE UNCHANGED current_section
    /\ body' = Append(body, e)
    /\ UNCHANGED body_limit
    /\ UNCHANGED <<counters, current_context, list_state, images, rel_to_image,
                   assigned_images, sections, pc>>
    /\ UNCHANGED extractor_vars
    /\ UNCHANGED outer_vars

\* lines 242 and 402: an element that is neither a paragraph nor a table
OtherElement(e) ==
    /\ More
    /\ e.kind = "other"
    /\ body' = Append(body, e)
    /\ UNCHANGED body_limit
    /\ UNCHANGED <<counters, current_context, list_state, images, rel_to_image,
                   assigned_images, current_section, sections, pc>>
    /\ UNCHANGED extractor_vars
    /\ UNCHANGED outer_vars

\* lines 410-418: the end of the body; the last section is finalized and the
\* ParsedDocument is returned with self.sections
EndOfBody ==
    /\ pc = "loop"
    /\ sections' = Finalized(sections, current_section)
    /\ current_section' = None
    /\ pc' = "done"
    /\ UNCHANGED <<counters, current_context, list_state, images, rel_to_image,
                   assigned_images, body, body_limit>>
    /\ UNCHANGED extractor_vars
    /\ UNCHANGED outer_vars

\* the loop body on element e
Step(e) ==
    \/ SkipParagraph(e)
    \/ HeadingParagraph(e)
    \/ ListItemParagraph(e)
    \/ TextParagraph(e)
    \/ ImageOnlyParagraph(e)
    \/ OrphanParagraph(e)
    \/ TableElement(e)
    \/ OtherElement(e)

(***************************************************************************)
(* Documents and specifications.                                           *)
(***************************************************************************)

\* a heading paragraph of level k, with text
H(k) == Para(Some(HeadingStyle(k)), TRUE, FALSE, <<>>, None)

\* a paragraph with a heading style of level k and neither text nor drawing
EmptyHeading(k) == Para(Some(HeadingStyle(k)), FALSE, FALSE, <<>>, None)

\* a plain paragraph with text
PlainText == Para(Some(NormalStyle), TRUE, FALSE, <<>>, None)

\* a paragraph with neither text nor drawing
Blank == Para(Some(NormalStyle), FALSE, FALSE, <<>>, None)

\* a list paragraph with text
ListItem(num_id, ilvl) == Para(Some(ListStyle), TRUE, FALSE, <<>>, NumPr(num_id, ilvl))

\* a paragraph that holds only a drawing with the given blips
Picture(blips) == Para(Some(NormalStyle), FALSE, TRUE, blips, None)

\* a paragraph with text and a drawing with the given blips
TextWithPicture(blips) == Para(Some(NormalStyle), TRUE, TRUE, blips, None)

\* a heading paragraph of level k with text and a drawing with the given blips
HeadingWithPicture(k, blips) == Para(Some(HeadingStyle(k)), TRUE, TRUE, blips, None)

\* a heading paragraph of level k without text, with a drawing
HeadingPictureOnly(k, blips) == Para(Some(HeadingStyle(k)), FALSE, TRUE, blips, None)

\* a paragraph with text whose numbering reference is malformed
MalformedListItem == Para(Some(ListStyle), TRUE, FALSE, <<>>, MalformedNumPr)

\* a table of two rows with unequal cell counts, and a table without rows
Table1 == Tbl(<< << <<"a">>, <<"b">> >>, << <<"c">> >> >>)

EmptyTable == Tbl(<<>>)

(***************************************************************************)
(* DocxParser.parse: the walk in native-numbering mode.                    *)
(***************************************************************************)

\* s.count(c)
Count(s, c) == Cardinality({i \in 1..Len(s) : s[i] = c})

\* s.rsplit(".", 1)[0] for a string that holds a dot
RSplitLast(s) ==
    LET last == CHOOSE i \in 1..Len(s) : s[i] = "." /\ \A j \in (i + 1)..Len(s) : s[j] # "."
    IN  SubSeq(s, 1, last - 1)

RECURSIVE LeadEnd(_, _)
\* the end of the run of digits and dots that starts after position i
LeadEnd(s, i) ==
    IF i < Len(s) /\ (IsDigit(s[i + 1]) \/ s[i + 1] = ".") THEN LeadEnd(s, i + 1) ELSE i

RECURSIVE SpaceEnd(_, _)
\* the end of the run of blanks that starts after position i
SpaceEnd(s, i) == IF i < Len(s) /\ s[i + 1] = " " THEN SpaceEnd(s, i + 1) ELSE i

\* lines 534-538: the title is the text without a number prefix, where
\* re.match(r"^[\d.]+\s+(.+)$", text) finds one (text is stripped, so what
\* follows the blanks is not empty and ends with no blank)
TitleOf(text) ==
    LET lead == LeadEnd(text, 0)
        blank == SpaceEnd(text, lead)
    IN  IF lead > 0 /\ blank > lead /\ blank < Len(text)
        THEN SubSeq(text, blank + 1, Len(text))
        ELSE text

\* the fields of the dataclass ParsedSection with their defaults
ParsedSectionDefaults == ParsedSection(<<"h", "1">>, <<>>, 1, None, None)

\* the exception of a call with an unexpected keyword argument
TypeError == [raised |-> "TypeError"]

\* ParsedSection(**kwargs): the generated __init__ accepts the fields of the
\* dataclass as keywords and raises TypeError for any other keyword
NewParsedSection(kwargs) ==
    IF DOMAIN kwargs \subseteq DOMAIN ParsedSectionDefaults
    THEN [f \in DOMAIN ParsedSectionDefaults |->
             IF f \in DOMAIN kwargs THEN kwargs[f] ELSE ParsedSectionDefaults[f]]
    ELSE TypeError

\* the loop at line 450 has an element left to read
NativeMore == pc = "native" /\ Len(body) < body_limit

\* DocxParser._process_paragraph on a paragraph element: a paragraph with a
\* NumberInfo ends the open section and opens the next one, any other
\* paragraph with text is appended to the open section.  The keyword
\* parent_path of line 544 is what the constructor is called with; its
\* TypeError is caught nowhere and ends parse.  The stack of lines 531-532
\* and 547 is written to only after the constructor returned.
ProcessParagraph(e) ==
    /\ NativeMore
    /\ e.kind = "p"
    /\ LET text == IF e.text THEN TextOf(Len(body) + 1) ELSE <<>>
           r == NumberInfoOf(e.numPr, ex_counters, used_paths)
       IN  /\ ex_counters' = r.counters
           /\ used_paths' = r.used_paths
           /\ IF r.info # None
              THEN LET number_path == r.info.number_path
                       level == Count(number_path, ".")
                       parent_path == IF level > 0 THEN Some(RSplitLast(number_path))
                                      ELSE Nothing
                       title == TitleOf(text)
                       section == NewParsedSection(
                                      [number_path |-> number_path, level |-> level,
                                       parent_path |-> parent_path,
                                       title |-> IF title # <<>> THEN Some(title) ELSE Nothing])
                   IN  /\ sections' = Finalized(sections, current_section)
                       /\ IF section = TypeError
                          THEN current_section' = None /\ pc' = "raised"
                          ELSE current_section' = section /\ pc' = pc
              ELSE /\ current_section' =
                         IF current_section # None /\ e.text
                         THEN [current_section EXCEPT !.paragraphs = Append(@, text)]
                         ELSE current_section
                   /\ UNCHANGED <<sections, pc>>
    /\ body' = Append(body, e)
    /\ UNCHANGED <<abstract_nums, num_to_abstract, returned>>
    /\ UNCHANGED <<counters, current_context, list_state, images, rel_to_image,
                   assigned_images, body_limit>>
    /\ UNCHANGED outer_vars

\* DocxParser._process_table on a table element: a rendered table is appended
\* to the tables of the open section
ProcessTable(e) ==
    /\ NativeMore
    /\ e.kind = "tbl"
    /\ LET rendered == ProcessTableAndReturn(e)
       IN  current_section' =
               IF rendered # None /\ current_section # None
               THEN [current_section EXCEPT !.tables = Append(@, rendered)]
               ELSE current_section
    /\ body' = Append(body, e)
    /\ UNCHANGED <<counters, current_context, list_state, images, rel_to_image,
                   assigned_images, sections, body_limit, pc>>
    /\ UNCHANGED extractor_vars
    /\ UNCHANGED outer_vars

\* lines 450-458: an element that is neither a paragraph nor a table
NativeOther(e) ==
    /\ NativeMore
    /\ e.kind = "other"
    /\ body' = Append(body, e)
    /\ UNCHANGED <<counters, current_context, list_state, images, rel_to_image,
                   assigned_images, current_section, sections, body_limit, pc>>
    /\ UNCHANGED extractor_vars
    /\ UNCHANGED outer_vars

\* lines 460-470: the end of the body; the last section is appended and the
\* ParsedDocument is returned with self.sections
EndOfParse ==
    /\ pc = "native"
    /\ sections' = Finalized(sections, current_section)
    /\ current_section' = None
    /\ pc' = "parsed"
    /\ UNCHANGED <<counters, current_context, list_state, images, rel_to_image,
                   assigned_images, body, body_limit>>
    /\ UNCHANGED extractor_vars
    /\ UNCHANGED outer_vars

\* an empty database (ids are given from 1 on)
EmptyDb == [documents |-> {}, sections |-> {}, next_document_id |-> 1, next_section_id |-> 1]

\* a fresh parser instance called directly: nothing returned before, no
\* service around it
InitOuter ==
    /\ parsed_docs = <<>>
    /\ sections_id = 1
    /\ db = EmptyDb
    /\ upload = None
    /\ response = None
    /\ request_count = 0
    /\ pool = None
    /\ table_rows = <<>>
    /\ table_html = Nothing
    /\ content_blocks = <<>>

\* the state after lines 208-238 of parse_by_heading on a package whose
\* numbering part is one of parts
InitParseOn(parts, limit, failures) ==
    /\ undecodable \in failures
    /\ body_limit = limit
    /\ \E n \in parts :
          /\ abstract_nums = n.abstract_nums
          /\ num_to_abstract = n.num_to_abstract
    /\ ex_counters = EmptyDict
    /\ used_paths = {}
    /\ returned = <<>>
    /\ counters = [level \in 1..max_heading_level |-> 0]
    /\ current_context = EmptyDict
    /\ list_state = FreshListState
    /\ images = ExtractAllImages(PackageRels)
    /\ rel_to_image = EmptyDict
    /\ assigned_images = {}
    /\ current_section = None
    /\ sections = <<>>
    /\ body = <<>>
    /\ pc = "loop"
    /\ InitOuter

\* the same on a package all of whose image parts decode
InitParse(parts, limit) == InitParseOn(parts, limit, {{}})

\* Spec: documents of up to MaxElems elements of every kind
Elems ==
    {H(1), H(2), EmptyHeading(1), PlainText, Blank, ListItem(1, 0), Picture(<<1>>),
     Table1, EmptyTable, Other}

Init == InitParse({StdNumbering}, MaxElems)

Next ==
    \/ \E e \in Elems : Step(e)
    \/ EndOfBody

Spec == Init /\ [][Next]_vars

\* SpecStyles: documents of paragraphs with text whose styles have various
\* names, or that have no style
StyleNames ==
    {HeadingStyle(1),
     <<"H", "E", "A", "D", "I", "N", "G", " ", "2">>,
     <<"h", "e", "a", "d", "i", "n", "g", " ", "1", "2">>,
     <<"H", "e", "a", "d", "i", "n", "g", " ", "3", "+">> \o HeadingStyle(2),
     <<"H", "e", "a", "d", "i", "n", "g", "1">>,
     <<"T", "i", "t", "l", "e">>}

\* a paragraph with text and the style given (Nothing: paragraph.style is None)
Styled(style) == Para(style, TRUE, FALSE, <<>>, None)

StyleElems == {Styled(Some(s)) : s \in StyleNames} \cup {Styled(Nothing)}

InitStyles == InitParse({StdNumbering}, MaxStyleElems)

NextStyles ==
    \/ \E e \in StyleElems :
          \/ HeadingParagraph(e)
          \/ TextParagraph(e)
          \/ OrphanParagraph(e)
    \/ EndOfBody

SpecStyles == InitStyles /\ [][NextStyles]_vars

\* SpecFormats: documents of headings and items of list 1, at levels 0 and 1,
\* on packages whose numbering part defines both levels of the list
ListFormats ==
    {"decimal", "roman", "upperRoman", "lowerRoman", "upperLetter", "lowerLetter",
     "chineseCounting", "bullet", "none", "decimalZero", "ordinal"}

\* lvlText values: "%1.", "o", "%" and the empty string
ListTemplates == {<<"%", "1", ".">>, <<"o">>, <<"%">>, <<>>}

\* the level definitions of level 1: decimal "%2." and bullet "o"
DeeperLevelDefs == {LevelDef(1, 1, "decimal", <<"%", "2", ".">>),
                    LevelDef(1, 1, "bullet", <<"o">>)}

\* a numbering part with one abstractNum of two levels, and num 1 for it
TwoLevelNumbering(fmt, lvl_text, deeper) ==
    [abstract_nums |-> (0 :> (0 :> LevelDef(0, 1, fmt, lvl_text) @@ 1 :> deeper)),
     num_to_abstract |-> (1 :> 0)]

FormatNumberings ==
    {TwoLevelNumbering(f, t, d) : f \in ListFormats, t \in ListTemplates,
                                  d \in DeeperLevelDefs}

FormatElems == {H(1), ListItem(1, 0), ListItem(1, 1)}

InitFormats == InitParse(FormatNumberings, MaxFormatElems)

NextFormats ==
    \/ \E e \in FormatElems :
          \/ HeadingParagraph(e)
          \/ ListItemParagraph(e)
          \/ OrphanParagraph(e)
    \/ EndOfBody

SpecFormats == InitFormats /\ [][NextFormats]_vars

\* SpecExtract: documents of headings and tables: a table without rows, a
\* table of one cell, tables whose rows differ in length, a table whose first
\* row has no cell; cell texts with spaces around them
ExtractTables ==
    {EmptyTable,
     Tbl(<< << <<" ", "a", " ">> >> >>),
     Tbl(<< << <<"a", " ">>, <<" ", "b">> >>, << <<"c">> >> >>),
     Tbl(<< << <<"a">> >>, << <<"b">>, <<"c", " ", "d", " ">> >> >>),
     Tbl(<< <<>>, << <<" ">> >> >>)}

ExtractElems == {H(1)} \cup ExtractTables

InitExtract == InitParse({StdNumbering}, MaxExtractElems)

NextExtract ==
    \/ \E e \in ExtractElems :
          \/ HeadingParagraph(e)
          \/ TableElement(e)
    \/ EndOfBody

SpecExtract == InitExtract /\ [][NextExtract]_vars

\* SpecRender: calls on one RichTextRenderer
RenderTexts == {<<"a">>, <<" ", "b">>, <<" ">>, <<>>}

RenderLevels == {1, 6, 7}

\* the tables added: a table processed from a document, and RenderedTables
\* without block JSON (None, and the {} that table_to_json gives for no rows)
RenderTables ==
    {ProcessTableAndReturn(Table1),
     [rows |-> 1, cols |-> 1, html |-> TableToHtml(<< << <<"a">> >> >>),
      json_data |-> None],
     [rows |-> 0, cols |-> 0, html |-> TableToHtml(<<>>), json_data |-> TableToJson(<<>>)]}

RenderImages == {RenderedImage([rId |-> 1, target_ref |-> <<<<"f", "1">>>>])}

InitRender ==
    /\ undecodable = {}
    /\ body_limit = 0
    /\ abstract_nums = EmptyDict
    /\ num_to_abstract = EmptyDict
    /\ ex_counters = EmptyDict
    /\ used_paths = {}
    /\ returned = <<>>
    /\ counters = [level \in 1..max_heading_level |-> 0]
    /\ current_context = EmptyDict
    /\ list_state = FreshListState
    /\ images = <<>>
    /\ rel_to_image = EmptyDict
    /\ assigned_images = {}
    /\ current_section = None
    /\ sections = <<>>
    /\ body = <<>>
    /\ pc = "idle"
    /\ InitOuter

NextRender ==
    \/ \E text \in RenderTexts, level \in RenderLevels : AddHeadingCall(text, level)
    \/ \E text \in RenderTexts : AddParagraphCall(text)
    \/ \E image \in RenderImages : AddImageCall(image)
    \/ \E table \in RenderTables : AddTableCall(table)

SpecRender == InitRender /\ [][NextRender]_vars

\* SpecTitles: documents of headings with and without text
TitleElems == {H(1), H(2), HeadingPictureOnly(1, <<1>>)}

InitTitles == InitParse({StdNumbering}, MaxTitleElems)

NextTitles ==
    \/ \E e \in TitleElems : HeadingParagraph(e)
    \/ EndOfBody

SpecTitles == InitTitles /\ [][NextTitles]_vars

\* SpecMalformed: documents of headings, list items and paragraphs whose
\* numbering reference is malformed
MalformedElems == {H(1), ListItem(1, 0), MalformedListItem}

InitMalformed == InitParse({StdNumbering}, MaxMalformedElems)

NextMalformed ==
    \/ \E e \in MalformedElems :
          \/ HeadingParagraph(e)
          \/ ListItemParagraph(e)
          \/ TextParagraph(e)
          \/ OrphanParagraph(e)
    \/ EndOfBody

SpecMalformed == InitMalformed /\ [][NextMalformed]_vars

\* SpecHeadings: documents made of heading paragraphs only
HeadingElems == {H(k) : k \in 1..MaxInputLevel}

InitHeadings == InitParse({StdNumbering}, MaxHeadings)

NextHeadings ==
    \/ \E e \in HeadingElems : HeadingParagraph(e)
    \/ EndOfBody

SpecHeadings == InitHeadings /\ [][NextHeadings]_vars

\* SpecLists: one section heading and the items of one decimal list
ListElems == {H(1)} \cup {ListItem(1, l) : l \in 0..MaxIlvl}

InitLists == InitParse({StdNumbering}, MaxListElems)

NextLists ==
    \/ \E e \in ListElems :
          \/ HeadingParagraph(e)
          \/ ListItemParagraph(e)
          \/ OrphanParagraph(e)
    \/ EndOfBody

SpecLists == InitLists /\ [][NextLists]_vars

\* SpecFallback: packages with and without a numbering part; list items at
\* level 0 of an unknown list (0), of a list whose abstractNum is missing (3)
\* and of a decimal list (1)
FallbackElems == {H(1), ListItem(0, 0), ListItem(3, 0), ListItem(1, 0)}

InitFallback == InitParse(NumberingParts, MaxFallbackElems)

NextFallback ==
    \/ \E e \in FallbackElems :
          \/ HeadingParagraph(e)
          \/ ListItemParagraph(e)
          \/ OrphanParagraph(e)
    \/ EndOfBody

SpecFallback == InitFallback /\ [][NextFallback]_vars

\* SpecImages: paragraphs with drawings; a blip names a relationship of the
\* package, or 0, which is no relationship
BlipLists == {<<r>> : r \in 1..NumRels} \cup {<<1, 1>>, <<1, 2>>}

ImageElems ==
    {H(1), HeadingWithPicture(1, <<1>>), Picture(<<1>>), Picture(<<0>>)}
    \cup {TextWithPicture(b) : b \in BlipLists}

InitImages == InitParse({StdNumbering}, MaxImageElems)

NextImages ==
    \/ \E e \in ImageElems :
          \/ HeadingParagraph(e)
          \/ TextParagraph(e)
          \/ ImageOnlyParagraph(e)
          \/ OrphanParagraph(e)
    \/ EndOfBody

SpecImages == InitImages /\ [][NextImages]_vars

\* SpecNumbering: get_number_info calls on one fresh extractor
NumPrs == {None} \cup {NumPr(n, l) : n \in NumIds, l \in 0..MaxIlvl}

InitNumbering ==
    /\ undecodable = {}
    /\ \E n \in NumberingParts :
          /\ abstract_nums = n.abstract_nums
          /\ num_to_abstract = n.num_to_abstract
    /\ ex_counters = EmptyDict
    /\ used_paths = {}
    /\ returned = <<>>
    /\ counters = [level \in 1..max_heading_level |-> 0]
    /\ current_context = EmptyDict
    /\ list_state = FreshListState
    /\ images = <<>>
    /\ rel_to_image = EmptyDict
    /\ assigned_images = {}
    /\ current_section = None
    /\ sections = <<>>
    /\ body = <<>>
    /\ body_limit = 0
    /\ pc = "idle"
    /\ InitOuter

NextNumbering == \E numPr \in NumPrs : GetNumberInfo(numPr)

SpecNumbering == InitNumbering /\ [][NextNumbering]_vars

(***************************************************************************)
(* The HTTP service: api/routes.py and db/crud.py.                         *)
(***************************************************************************)

\* the reset and setup of lines 208-238 of parse_by_heading, on a package
\* whose numbering part is one of parts
ParserReset(parts) ==
    /\ \E n \in parts :
          /\ abstract_nums' = n.abstract_nums
          /\ num_to_abstract' = n.num_to_abstract
    /\ ex_counters' = EmptyDict
    /\ used_paths' = {}
    /\ counters' = [level \in 1..max_heading_level |-> 0]
    /\ current_context' = EmptyDict
    /\ list_state' = FreshListState
    /\ images' = ExtractAllImages(PackageRels)
    /\ rel_to_image' = EmptyDict
    /\ assigned_images' = {}
    /\ current_section' = None
    /\ sections' = <<>>
    /\ body' = <<>>

\* s.endswith(suffix)
EndsWith(s, suffix) ==
    Len(s) >= Len(suffix) /\ SubSeq(s, Len(s) - Len(suffix) + 1, Len(s)) = suffix

\* a file name check that looks for ".docx" anywhere in the name
ValidUploadNameAnywhere(filename) ==
    filename # <<>> /\ Contains(Lower(filename), <<".", "d", "o", "c", "x">>)

\* routes.py line 66: file.filename and file.filename.lower().endswith(".docx")
\* (a missing file name and an empty one are both the empty sequence)
ValidUploadName(filename) ==
    filename # <<>> /\ EndsWith(Lower(filename), <<".", "d", "o", "c", "x">>)

\* routes.py lines 75-76: the content is larger than max_file_size_mb
TooLarge(content) == content.size_mb > max_file_size_mb

\* a loader that opens every content
LoadsAnything(content) == TRUE

\* docx.py line 220: Document(io.BytesIO(file_content)) opens the package
Loads(content) == content.loadable

\* a request and the status it was answered with
Response(request, status) == [request |-> request, status |-> status]

\* the requests
ParseRequest(filename, content) == [kind |-> "parse", filename |-> filename, content |-> content]

DocumentRequest(kind, document_id) == [kind |-> kind, document_id |-> document_id]

SectionRequest(document_id, number_path) ==
    [kind |-> "get_section", document_id |-> document_id, number_path |-> number_path]

\* a request can be received
Receives == request_count < MaxRequests

\* parse_document, lines 65-70: an upload without ".docx" name is answered
\* with 400 before anything is read
ParseRejected(filename, content) ==
    /\ Receives
    /\ upload = None
    /\ ~ValidUploadName(filename)
    /\ response' = Response(ParseRequest(filename, content), 400)
    /\ request_count' = request_count + 1
    /\ UNCHANGED <<kept_vars, db, upload>>
    /\ UNCHANGED extractor_vars
    /\ UNCHANGED parser_vars

\* parse_document, lines 72-81: the content is read; too large a content is
\* answered with 413
ParseTooLarge(filename, content) ==
    /\ Receives
    /\ upload = None
    /\ ValidUploadName(filename)
    /\ TooLarge(content)
    /\ response' = Response(ParseRequest(filename, content), 413)
    /\ request_count' = request_count + 1
    /\ UNCHANGED <<kept_vars, db, upload>>
    /\ UNCHANGED extractor_vars
    /\ UNCHANGED parser_vars

\* parse_document, lines 89-104: parse_by_heading raises while it loads the
\* package (docx.py line 220, after the reset of lines 213-216 on the new
\* parser); the exception is answered with 500
ParseLoadFailed(filename, content) ==
    /\ Receives
    /\ upload = None
    /\ ValidUploadName(filename)
    /\ ~TooLarge(content)
    /\ ~Loads(content)
    /\ response' = Response(ParseRequest(filename, content), 500)
    /\ request_count' = request_count + 1
    /\ UNCHANGED <<kept_vars, db, upload>>
    /\ UNCHANGED extractor_vars
    /\ UNCHANGED parser_vars

\* parse_document, lines 89-92: a new parser starts parse_by_heading on a
\* content that loads
ParseStarted(filename, content) ==
    /\ Receives
    /\ upload = None
    /\ pc = "idle"
    /\ ValidUploadName(filename)
    /\ ~TooLarge(content)
    /\ Loads(content)
    /\ upload' = ParseRequest(filename, content)
    /\ request_count' = request_count + 1
    /\ ParserReset({StdNumbering})
    /\ pc' = "loop"
    /\ UNCHANGED <<returned, body_limit, kept_vars, db, response>>

\* the parameters of crud.create_section, none of which has a default
CreateSectionParams ==
    {"db", "document_id", "number_path", "level", "parent_id", "title",
     "content_html", "content_json", "marked_content", "sort_order"}

\* the keywords that parse_document calls crud.create_section with
\* (routes.py lines 166-176)
CreateSectionKeywords ==
    {"db", "document_id", "number_path", "level", "parent_id", "title",
     "content_html", "content_json", "sort_order"}

\* a call of crud.create_section with the given keywords: TypeError when a
\* parameter is missing or a keyword is unknown
CreateSectionCall(keywords) ==
    IF keywords = CreateSectionParams THEN "created" ELSE TypeError

\* crud.create_document: the database with the new document
WithDocument(d, file_hash) ==
    [d EXCEPT !.documents = @ \cup {[id |-> d.next_document_id, file_hash |-> file_hash,
                                      parsed |-> FALSE]},
              !.next_document_id = @ + 1]

\* crud.create_section for every parsed section, in order
WithSections(d, document_id, secs) ==
    [d EXCEPT !.sections = @ \cup {[id |-> d.next_section_id + k - 1,
                                     document_id |-> document_id,
                                     number_path |-> secs[k].number_path,
                                     sort_order |-> k] : k \in 1..Len(secs)},
              !.next_section_id = @ + Len(secs)]

\* crud.mark_document_parsed
MarkedParsed(d, document_id) ==
    [d EXCEPT !.documents = {IF x.id = document_id THEN [x EXCEPT !.parsed = TRUE] ELSE x :
                                x \in @}]

\* parse_document, lines 106-227, after parse_by_heading returned: a document
\* with the same hash is answered from the database; otherwise the document
\* is created and its sections are stored one by one.  The first call of
\* crud.create_section raises TypeError, which nothing catches: the request is
\* answered with 500 and the document record stays without sections; the
\* renderer then holds the blocks of the first section.  The hash of the
\* content is taken to be the body that was read.
StoreParsed ==
    /\ pc = "done"
    /\ upload # None
    /\ LET file_hash == body
           existing == {x \in db.documents : x.file_hash = file_hash}
           created == WithDocument(db, file_hash)
           document_id == db.next_document_id
       IN  IF existing # {}
           THEN /\ response' = Response(upload, 201)
                /\ UNCHANGED <<db, content_blocks>>
           ELSE IF sections = <<>>
           THEN /\ db' = MarkedParsed(created, document_id)
                /\ response' = Response(upload, 201)
                /\ UNCHANGED content_blocks
           ELSE IF CreateSectionCall(CreateSectionKeywords) = TypeError
           THEN /\ db' = created
                /\ content_blocks' = SectionBlocks(sections[1])
                /\ response' = Response(upload, 500)
           ELSE /\ db' = MarkedParsed(WithSections(created, document_id, sections),
                                      document_id)
                /\ content_blocks' = SectionBlocks(sections[Len(sections)])
                /\ response' = Response(upload, 201)
    /\ upload' = None
    /\ pc' = "idle"
    /\ UNCHANGED <<counters, current_context, list_state, images, rel_to_image,
                   assigned_images, current_section, sections, body, body_limit>>
    /\ UNCHANGED <<parsed_docs, sections_id, undecodable, pool, table_rows, table_html,
                   request_count>>
    /\ UNCHANGED extractor_vars

\* get_document, lines 230-254: 404 for an id without document
GetDocument(document_id) ==
    /\ Receives
    /\ response' = Response(DocumentRequest("get_document", document_id),
                            IF \E x \in db.documents : x.id = document_id THEN 200 ELSE 404)
    /\ request_count' = request_count + 1
    /\ UNCHANGED <<kept_vars, db, upload>>
    /\ UNCHANGED extractor_vars
    /\ UNCHANGED parser_vars

\* get_section_by_path, lines 257-275, with crud.get_section_by_path: 404
\* when no section has the document id and the number path
GetSectionByPath(document_id, number_path) ==
    /\ Receives
    /\ response' = Response(SectionRequest(document_id, number_path),
                            IF \E x \in db.sections :
                                  x.document_id = document_id /\ x.number_path = number_path
                            THEN 200 ELSE 404)
    /\ request_count' = request_count + 1
    /\ UNCHANGED <<kept_vars, db, upload>>
    /\ UNCHANGED extractor_vars
    /\ UNCHANGED parser_vars

\* get_sections_tree, lines 278-290: the tree of the sections that have the
\* document id, for every id
GetSectionsTree(document_id) ==
    /\ Receives
    /\ response' = Response(DocumentRequest("get_sections_tree", document_id), 200)
    /\ request_count' = request_count + 1
    /\ UNCHANGED <<kept_vars, db, upload>>
    /\ UNCHANGED extractor_vars
    /\ UNCHANGED parser_vars

\* a delete that leaves the sections of the document
DeletedNoCascade(d, document_id) ==
    [d EXCEPT !.documents = {x \in @ : x.id # document_id}]

\* crud.delete_document on a stored document: db.delete(doc) with the cascade
\* "all, delete-orphan" of Document.sections (models.py lines 42-47)
Deleted(d, document_id) ==
    [d EXCEPT !.documents = {x \in @ : x.id # document_id},
              !.sections = {x \in @ : x.document_id # document_id}]

\* delete_document, lines 346-372: 404 for an id without document, 204 after
\* the document and its sections are deleted
DeleteDocument(document_id) ==
    /\ Receives
    /\ IF \E x \in db.documents : x.id = document_id
       THEN /\ db' = Deleted(db, document_id)
            /\ response' = Response(DocumentRequest("delete_document", document_id), 204)
       ELSE /\ UNCHANGED db
            /\ response' = Response(DocumentRequest("delete_document", document_id), 404)
    /\ request_count' = request_count + 1
    /\ UNCHANGED <<kept_vars, upload>>
    /\ UNCHANGED extractor_vars
    /\ UNCHANGED parser_vars

\* the file names of the uploads: missing, with the extension in lower and
\* in upper case, with another extension, and with ".docx" inside the name
Filenames ==
    {<<>>, <<"a", ".", "d", "o", "c", "x">>, <<"A", ".", "D", "O", "C", "X">>,
     <<"a", ".", "t", "x", "t">>, <<"a", ".", "d", "o", "c", "x", ".", "t", "x", "t">>,
     <<"d", "o", "c", "x">>}

\* the contents of the uploads: whether the package loads, and the size
Contents ==
    {[loadable |-> TRUE, size_mb |-> 1], [loadable |-> FALSE, size_mb |-> 1],
     [loadable |-> TRUE, size_mb |-> max_file_size_mb + 1]}

ApiElems == {H(1), PlainText}

\* a database that holds a document with hash of the body H(1) and its
\* section 1, stored earlier
SeedDb ==
    [documents |-> {[id |-> 1, file_hash |-> <<H(1)>>, parsed |-> TRUE]},
     sections |-> {[id |-> 1, document_id |-> 1, number_path |-> <<"1">>, sort_order |-> 1]},
     next_document_id |-> 2, next_section_id |-> 2]

\* the number paths asked for
RequestPaths == {<<"1">>, <<"2">>}

\* the service waits for requests, with an empty database or the seeded one
InitApi ==
    /\ undecodable = {}
    /\ abstract_nums = StdNumbering.abstract_nums
    /\ num_to_abstract = StdNumbering.num_to_abstract
    /\ ex_counters = EmptyDict
    /\ used_paths = {}
    /\ returned = <<>>
    /\ counters = [level \in 1..max_heading_level |-> 0]
    /\ current_context = EmptyDict
    /\ list_state = FreshListState
    /\ images = <<>>
    /\ rel_to_image = EmptyDict
    /\ assigned_images = {}
    /\ current_section = None
    /\ sections = <<>>
    /\ body = <<>>
    /\ body_limit = MaxApiElems
    /\ pc = "idle"
    /\ parsed_docs = <<>>
    /\ sections_id = 1
    /\ db \in {EmptyDb, SeedDb}
    /\ upload = None
    /\ response = None
    /\ request_count = 0
    /\ pool = None
    /\ table_rows = <<>>
    /\ table_html = Nothing
    /\ content_blocks = <<>>

NextApi ==
    \/ \E filename \in Filenames, content \in Contents :
          \/ ParseRejected(filename, content)
          \/ ParseTooLarge(filename, content)
          \/ ParseLoadFailed(filename, content)
          \/ ParseStarted(filename, content)
    \/ \E e \in ApiElems :
          \/ HeadingParagraph(e)
          \/ TextParagraph(e)
          \/ OrphanParagraph(e)
    \/ EndOfBody
    \/ StoreParsed
    \/ \E document_id \in 1..MaxDocId :
          \/ GetDocument(document_id)
          \/ GetSectionsTree(document_id)
          \/ DeleteDocument(document_id)
          \/ \E number_path \in RequestPaths : GetSectionByPath(document_id, number_path)

SpecApi == InitApi /\ [][NextApi]_vars

\* SpecContent: documents whose sections mix paragraphs, list items, tables
\* and pictures
ContentElems ==
    {H(1), PlainText, ListItem(1, 0), TextWithPicture(<<1, 2>>), Picture(<<2>>), Table1}

InitContent == InitParse({StdNumbering}, MaxContentElems)

NextContent ==
    \/ \E e \in ContentElems :
          \/ HeadingParagraph(e)
          \/ ListItemParagraph(e)
          \/ TextParagraph(e)
          \/ ImageOnlyParagraph(e)
          \/ OrphanParagraph(e)
          \/ TableElement(e)
    \/ EndOfBody

SpecContent == InitContent /\ [][NextContent]_vars

\* SpecDecode: parse_by_heading on packages in which any of the image parts
\* may fail to decode
Failures == SUBSET (1..NumRels)

DecodeElems ==
    {H(1), PlainText, Picture(<<1>>), Picture(<<3>>), TextWithPicture(<<2, 3>>),
     HeadingWithPicture(1, <<2>>)}

InitDecode == InitParseOn({StdNumbering}, MaxDecodeElems, Failures)

NextDecode ==
    \/ \E e \in DecodeElems :
          \/ HeadingParagraph(e)
          \/ TextParagraph(e)
          \/ ImageOnlyParagraph(e)
          \/ OrphanParagraph(e)
    \/ EndOfBody

SpecDecode == InitDecode /\ [][NextDecode]_vars

\* parse_by_heading as a function of the body elements: the call on a parser
\* instance that was just constructed.

\* the locals and fields that the walk works on, after lines 208-238
FreshCall ==
    [counters |-> [level \in 1..max_heading_level |-> 0], current_context |-> EmptyDict,
     list_state |-> FreshListState, rel_to_image |-> EmptyDict, assigned_images |-> {},
     current_section |-> None, sections |-> <<>>]

\* lines 242-408: the loop body on the element e at position i
ElementByHeading(st, e, i) ==
    IF e.kind = "p"
    THEN IF ~Live(e) THEN st
         ELSE LET text == IF e.text THEN TextOf(i) ELSE <<>>
                  rel_map == RelMapAfter(e, st.rel_to_image, ExtractAllImages(PackageRels))
                  got == ParagraphImages(e, rel_map, st.assigned_images)
                  seen == [st EXCEPT !.rel_to_image = rel_map, !.assigned_images = got.assigned]
                  heading_level == GetHeadingLevel(e.style)
                  list_info == GetListInfo(e, StdNumbering.abstract_nums,
                                           StdNumbering.num_to_abstract)
              IN  IF heading_level # 0
                  THEN LET cs == HeadingCounters(st.counters, heading_level)
                           number_path == NumberPath(cs, heading_level)
                       IN  [seen EXCEPT
                              !.counters = cs,
                              !.current_context =
                                  ContextAfter(st.current_context, heading_level, number_path, text),
                              !.list_state = FreshListState,
                              !.sections = Finalized(st.sections, st.current_section),
                              !.current_section =
                                  ParsedSection(GetHeadingLabel(heading_level), number_path,
                                      heading_level, ParentOf(st.current_context, heading_level),
                                      text)]
                  ELSE IF st.current_section = None THEN seen
                  ELSE IF e.text /\ list_info # None
                  THEN LET ls == ListStateAfter(st.list_state, list_info)
                           marked_text == FormatListItem(list_info.type, list_info.level,
                                              ls.counters[list_info.level], text)
                       IN  [seen EXCEPT
                              !.list_state = ls,
                              !.current_section =
                                  AttachImages(AppendText(st.current_section, text, marked_text),
                                               got.paragraph_images)]
                  ELSE IF e.text
                  THEN [seen EXCEPT
                          !.list_state = FreshListState,
                          !.current_section =
                              AttachImages(AppendText(st.current_section, text, text),
                                           got.paragraph_images)]
                  ELSE [seen EXCEPT
                          !.current_section =
                              AttachImages(st.current_section, got.paragraph_images)]
    ELSE IF e.kind = "tbl"
    THEN LET rendered_table == ProcessTableAndReturn(e)
         IN  IF rendered_table # None /\ st.current_section # None
             THEN [st EXCEPT !.current_section.content_items =
                                 Append(@, ContentItem("table", rendered_table))]
             ELSE st
    ELSE st

RECURSIVE WalkByHeading(_, _, _)
\* the loop of line 241 from position i on
WalkByHeading(st, elements, i) ==
    IF i > Len(elements) THEN st
    ELSE WalkByHeading(ElementByHeading(st, elements[i], i), elements, i + 1)

\* DocxParser.parse_by_heading: the sections of the ParsedDocument returned
ParseByHeading(elements) ==
    LET end == WalkByHeading(FreshCall, elements, 1)
    IN  [raised |-> FALSE, sections |-> Finalized(end.sections, end.current_section)]

\* lines 449-458 with _process_paragraph and _process_table: the loop body of
\* parse on the element e at position i
ElementNative(st, e, i) ==
    IF st.raised THEN st
    ELSE IF e.kind = "p"
    THEN LET text == IF e.text THEN TextOf(i) ELSE <<>>
             r == NumberInfoOf(e.numPr, st.ex_counters, st.used_paths)
             counted == [st EXCEPT !.ex_counters = r.counters, !.used_paths = r.used_paths]
         IN  IF r.info # None
             THEN LET number_path == r.info.number_path
                      level == Count(number_path, ".")
                      title == TitleOf(text)
                      section == NewParsedSection(
                                     [number_path |-> number_path, level |-> level,
                                      parent_path |-> IF level > 0
                                                      THEN Some(RSplitLast(number_path))
                                                      ELSE Nothing,
                                      title |-> IF title # <<>> THEN Some(title) ELSE Nothing])
                  IN  IF section = TypeError
                      THEN [counted EXCEPT
                              !.sections = Finalized(st.sections, st.current_section),
                              !.current_section = None, !.raised = TRUE]
                      ELSE [counted EXCEPT
                              !.sections = Finalized(st.sections, st.current_section),
                              !.current_section = section]
             ELSE IF st.current_section # None /\ e.text
             THEN [counted EXCEPT !.current_section.paragraphs = Append(@, text)]
             ELSE counted
    ELSE IF e.kind = "tbl"
    THEN LET rendered == ProcessTableAndReturn(e)
         IN  IF rendered # None /\ st.current_section # None
             THEN [st EXCEPT !.current_section.tables = Append(@, rendered)]
             ELSE st
    ELSE st

RECURSIVE WalkNative(_, _, _)
\* the loop of line 450 from position i on
WalkNative(st, elements, i) ==
    IF i > Len(elements) THEN st
    ELSE WalkNative(ElementNative(st, elements[i], i), elements, i + 1)

\* DocxParser.parse: whether the call raised, and the sections of the
\* ParsedDocument returned
Parse(elements) ==
    LET end == WalkNative([ex_counters |-> EmptyDict, used_paths |-> {},
                           current_section |-> None, sections |-> <<>>, raised |-> FALSE],
                          elements, 1)
    IN  IF end.raised THEN [raised |-> TRUE, sections |-> <<>>]
        ELSE [raised |-> FALSE, sections |-> Finalized(end.sections, end.current_section)]

\* SpecReuse: two DocxParser instances.  The variables of the parser hold
\* one of them, on which one document after the other is parsed in either
\* mode, and one of the documents it returns is kept by the caller; pool.other
\* holds the second instance, on which parse_by_heading is called time and
\* again.  The steps of the two instances interleave.

\* the same list object stays bound to self.sections
SameListId == sections_id

\* self.sections = [] (lines 209 and 435) binds a new list object: one that
\* nothing else refers to
NewListId ==
    LET in_use == {parsed_docs[i].sections_ref : i \in 1..Len(parsed_docs)}
    IN  CHOOSE n \in 1..2 : n \notin in_use /\ \A m \in 1..(n - 1) : m \in in_use

\* a parse call may begin on an instance at pc p: none is open on it
MayBegin(p) == p \in {"idle", "raised", "done", "parsed"}

\* inside the walk over the body
Walking(p) == p \in {"loop", "native"}

\* parse_by_heading is called on the instance: lines 208-238
BeginParseByHeading ==
    /\ MayBegin(pc)
    /\ ParserReset({StdNumbering})
    /\ returned' = <<>>
    /\ sections_id' = NewListId
    /\ pc' = "loop"
    /\ pool' = [pool EXCEPT !.mixed = FALSE]
    /\ UNCHANGED <<body_limit, parsed_docs, db, upload, response, request_count, undecodable,
                   table_rows, table_html, content_blocks>>

\* parse is called on the instance: lines 434-447, which leave
\* self._rel_to_image as it is; the locals of parse_by_heading do not exist
BeginParse ==
    /\ MayBegin(pc)
    /\ abstract_nums' = StdNumbering.abstract_nums
    /\ num_to_abstract' = StdNumbering.num_to_abstract
    /\ ex_counters' = EmptyDict
    /\ used_paths' = {}
    /\ returned' = <<>>
    /\ counters' = [level \in 1..max_heading_level |-> 0]
    /\ current_context' = EmptyDict
    /\ list_state' = FreshListState
    /\ assigned_images' = {}
    /\ images' = ExtractAllImages(PackageRels)
    /\ current_section' = None
    /\ sections' = <<>>
    /\ body' = <<>>
    /\ sections_id' = NewListId
    /\ pc' = "native"
    /\ pool' = [pool EXCEPT !.mixed = FALSE]
    /\ UNCHANGED rel_to_image
    /\ UNCHANGED <<body_limit, parsed_docs, db, upload, response, request_count, undecodable,
                   table_rows, table_html, content_blocks>>

\* ParsedDocument(sections=self.sections) as returned at lines 413-418 and
\* 465-470: the document refers to the list of the parser; what it was parsed
\* from is noted with it
ParsedDocument(from, mode, list_id, secs) ==
    [body |-> from, mode |-> mode, sections_ref |-> list_id, sections |-> secs]

\* the caller keeps the document that was returned
KeepDocument ==
    /\ pc \in {"done", "parsed"}
    /\ parsed_docs = <<>>
    /\ parsed_docs' = <<ParsedDocument(body, IF pc = "done" THEN "heading" ELSE "native",
                                       sections_id, sections)>>
    /\ UNCHANGED <<counters, current_context, list_state, images, rel_to_image,
                   assigned_images, current_section, sections, body, body_limit, pc>>
    /\ UNCHANGED extractor_vars
    /\ UNCHANGED <<sections_id, db, upload, response, request_count, undecodable,
                   pool, table_rows, table_html, content_blocks>>
\* DocxParser.__init__ (lines 83-89) for the second instance, on which no
\* call is open
NewInstance == [pc |-> "idle", body |-> <<>>, call |-> FreshCall]

\* a step of the second instance happens between two steps of a call on the
\* first one
Mixed == pool.mixed \/ Walking(pc)

\* parse_by_heading is called on the second instance
OtherBegins ==
    /\ MayBegin(pool.other.pc)
    /\ pool' = [other |-> [pc |-> "loop", body |-> <<>>, call |-> FreshCall],
                mixed |-> Mixed]
    /\ UNCHANGED <<extractor_vars, parser_vars>>
    /\ UNCHANGED <<parsed_docs, sections_id, db, upload, response, request_count, undecodable,
                   table_rows, table_html, content_blocks>>

\* the call on the second instance reads the element e
OtherReads(e) ==
    /\ pool.other.pc = "loop"
    /\ Len(pool.other.body) < body_limit
    /\ pool' = [other |-> [pc |-> "loop", body |-> Append(pool.other.body, e),
                           call |-> ElementByHeading(pool.other.call, e,
                                                     Len(pool.other.body) + 1)],
                mixed |-> Mixed]
    /\ UNCHANGED <<extractor_vars, parser_vars>>
    /\ UNCHANGED <<parsed_docs, sections_id, db, upload, response, request_count, undecodable,
                   table_rows, table_html, content_blocks>>

\* the call on the second instance returns
OtherReturns ==
    /\ pool.other.pc = "loop"
    /\ pool' = [other |-> [pc |-> "done", body |-> pool.other.body,
                           call |-> [pool.other.call EXCEPT
                                       !.sections = Finalized(pool.other.call.sections,
                                                              pool.other.call.current_section),
                                       !.current_section = None]],
                mixed |-> Mixed]
    /\ UNCHANGED <<extractor_vars, parser_vars>>
    /\ UNCHANGED <<parsed_docs, sections_id, db, upload, response, request_count, undecodable,
                   table_rows, table_html, content_blocks>>

\* a list paragraph with text and a drawing with the given blips
ListItemWithPicture(num_id, ilvl, blips) ==
    Para(Some(ListStyle), TRUE, TRUE, blips, NumPr(num_id, ilvl))

ReuseElems == {H(1), ListItemWithPicture(1, 0, <<1>>)}

InitReuse ==
    /\ undecodable = {}
    /\ body_limit = MaxReuseElems
    /\ abstract_nums = EmptyDict
    /\ num_to_abstract = EmptyDict
    /\ ex_counters = EmptyDict
    /\ used_paths = {}
    /\ returned = <<>>
    /\ counters = [level \in 1..max_heading_level |-> 0]
    /\ current_context = EmptyDict
    /\ list_state = FreshListState
    /\ images = <<>>
    /\ rel_to_image = EmptyDict
    /\ assigned_images = {}
    /\ current_section = None
    /\ sections = <<>>
    /\ body = <<>>
    /\ pc = "idle"
    /\ parsed_docs = <<>>
    /\ sections_id = 1
    /\ db = EmptyDb
    /\ upload = None
    /\ response = None
    /\ request_count = 0
    /\ pool = [other |-> NewInstance, mixed |-> FALSE]
    /\ table_rows = <<>>
    /\ table_html = Nothing
    /\ content_blocks = <<>>

NextReuse ==
    \/ BeginParseByHeading
    \/ BeginParse
    \/ \E e \in ReuseElems :
          \/ HeadingParagraph(e)
          \/ ListItemParagraph(e)
          \/ OrphanParagraph(e)
          \/ ProcessParagraph(e)
          \/ OtherReads(e)
    \/ EndOfBody
    \/ EndOfParse
    \/ KeepDocument
    \/ OtherBegins
    \/ OtherReturns

SpecReuse == InitReuse /\ [][NextReuse]_vars

\* SpecTables: table_to_html called on a non-empty rectangular grid of cell
\* texts

\* the texts of the cells: plain text, the empty text, and text that reads
\* as markup
CellTexts == {<<"a">>, <<>>, EndTag(ThName) \o StartTag(ThName)}

\* the non-empty rectangular grids of up to MaxTableRows rows and
\* MaxTableCols columns
Grids ==
    UNION {[1..r -> [1..c -> CellTexts]] : r \in 1..MaxTableRows, c \in 1..MaxTableCols}

\* table_to_html is called on the grid
TableToHtmlCall ==
    /\ table_html = Nothing
    /\ table_html' = Some(TableToHtml(table_rows))
    /\ UNCHANGED table_rows
    /\ UNCHANGED <<extractor_vars, parser_vars>>
    /\ UNCHANGED <<parsed_docs, sections_id, db, upload, response, request_count,
                   undecodable, pool, content_blocks>>

InitTables ==
    /\ table_rows \in Grids
    /\ table_html = Nothing
    /\ content_blocks = <<>>
    /\ undecodable = {}
    /\ body_limit = 0
    /\ abstract_nums = EmptyDict
    /\ num_to_abstract = EmptyDict
    /\ ex_counters = EmptyDict
    /\ used_paths = {}
    /\ returned = <<>>
    /\ counters = [level \in 1..max_heading_level |-> 0]
    /\ current_context = EmptyDict
    /\ list_state = FreshListState
    /\ images = <<>>
    /\ rel_to_image = EmptyDict
    /\ assigned_images = {}
    /\ current_section = None
    /\ sections = <<>>
    /\ body = <<>>
    /\ pc = "idle"
    /\ parsed_docs = <<>>
    /\ sections_id = 1
    /\ db = EmptyDb
    /\ upload = None
    /\ response = None
    /\ request_count = 0
    /\ pool = None

NextTables == TableToHtmlCall

SpecTables == InitTables /\ [][NextTables]_vars

\* SpecModes: one document parsed in heading-style mode (parse_by_heading)
\* or in native-numbering mode (parse)
ModeElems == {H(1), H(2), PlainText, ListItem(1, 0), Table1, Other}

\* the state after lines 434-447 of parse: the attributes are reset, the
\* extractor is built and the images are extracted
InitNativeParse(parts, limit) ==
    /\ undecodable = {}
    /\ body_limit = limit
    /\ \E n \in parts :
          /\ abstract_nums = n.abstract_nums
          /\ num_to_abstract = n.num_to_abstract
    /\ ex_counters = EmptyDict
    /\ used_paths = {}
    /\ returned = <<>>
    /\ counters = [level \in 1..max_heading_level |-> 0]
    /\ current_context = EmptyDict
    /\ list_state = FreshListState
    /\ images = ExtractAllImages(PackageRels)
    /\ rel_to_image = EmptyDict
    /\ assigned_images = {}
    /\ current_section = None
    /\ sections = <<>>
    /\ body = <<>>
    /\ pc = "native"
    /\ InitOuter

InitModes ==
    \/ InitParse({StdNumbering}, MaxModeElems)
    \/ InitNativeParse({StdNumbering}, MaxModeElems)

NextModes ==
    \/ \E e \in ModeElems :
          \/ HeadingParagraph(e)
          \/ ListItemParagraph(e)
          \/ TextParagraph(e)
          \/ OrphanParagraph(e)
          \/ TableElement(e)
          \/ OtherElement(e)
          \/ ProcessParagraph(e)
          \/ ProcessTable(e)
          \/ NativeOther(e)
    \/ EndOfBody
    \/ EndOfParse

SpecModes == InitModes /\ [][NextModes]_vars

(***************************************************************************)
(* Vocabulary of the properties.                                           *)
(***************************************************************************)

\* the sections opened so far, in order: the finalized ones and the open one
AllSections == IF current_section # None THEN Append(sections, current_section) ELSE sections

RECURSIVE Ascending(_)
\* the numbers of a finite set in ascending order
Ascending(S) ==
    IF S = {} THEN <<>>
    ELSE LET m == CHOOSE x \in S : \A y \in S : x <= y
         IN  <<m>> \o Ascending(S \ {m})

\* the sequence f[1], ..., f[n], with its elements computed once
Listed(f, n) == SubSeq(f, 1, n)

\* the heading level of the body element at position i (0: none)
LevelAt(i) == IF body[i].kind = "p" THEN GetHeadingLevel(body[i].style) ELSE 0

\* for every body position, the level of the heading paragraph read there
\* (0: the element is no heading paragraph, or one that was skipped for
\* having neither text nor drawing)
BodyLevels ==
    Listed([i \in 1..Len(body) |->
        IF body[i].kind = "p" /\ (body[i].text \/ body[i].drawing) THEN LevelAt(i) ELSE 0],
        Len(body))

\* the positions of the headings in the levels lv, in body order
HeadingSeq(lv) == Ascending({i \in 1..Len(lv) : lv[i] # 0})

\* the levels of the headings, in body order
HeadingLevels(lv) == LET hs == HeadingSeq(lv) IN Listed([k \in 1..Len(hs) |-> lv[hs[k]]], Len(hs))

\* the number of level-l headings up to position i since the last heading
\* shallower than l
CountSince(lv, i, l) ==
    Cardinality({j \in 1..i :
        /\ lv[j] = l
        /\ \A k \in (j + 1)..i : lv[k] = 0 \/ lv[k] >= l})

\* the number paths of the sections opened so far
Paths ==
    LET all == AllSections
    IN  Listed([k \in 1..Len(all) |-> all[k].number_path], Len(all))

\* the parents' number paths of the sections opened so far (Nothing: no parent)
Parents ==
    LET all == AllSections
    IN  Listed([k \in 1..Len(all) |->
                   IF all[k].parent = None THEN Nothing
                   ELSE Some(all[k].parent.number_path)], Len(all))

(***************************************************************************)
(* Claims.                                                                 *)
(***************************************************************************)

\* C1: in heading-style mode every heading counter equals the number of
\* headings of its level since the last shallower heading (a heading of level
\* L adds one to counter L and resets the deeper counters), the number_path
\* of each section is the dot-join of the counters of levels 1..L at its
\* heading, and H1, H2, H2, H1 yields exactly 1, 1.1, 1.2, 2.
C1_HeadingNumberPaths ==
    LET lv == BodyLevels
        hs == HeadingSeq(lv)
        all == AllSections
    IN  /\ \A l \in 1..max_heading_level : counters[l] = CountSince(lv, Len(lv), l)
        /\ Len(all) = Len(hs)
        /\ \A k \in 1..Len(all) :
              all[k].number_path =
                  DotJoin([l \in 1..lv[hs[k]] |-> Str(CountSince(lv, hs[k], l))])
        /\ HeadingLevels(lv) = <<1, 2, 2, 1>> =>
              Paths = << <<"1">>, <<"1", ".", "1">>, <<"1", ".", "2">>, <<"2">> >>

\* C1 witness: the document H1, H2, H2, H1 was parsed to the end
C1_Witness ==
    /\ pc = "done"
    /\ HeadingLevels(BodyLevels) = <<1, 2, 2, 1>>
    /\ Len(sections) = 4

\* the position of the most recent heading of level l before position i (0: none)
LastAtLevel(lv, i, l) ==
    LET earlier == {j \in 1..(i - 1) : lv[j] = l}
    IN  IF earlier = {} THEN 0 ELSE CHOOSE j \in earlier : \A h \in earlier : h <= j

\* the index in the heading positions hs of the heading at position i
IndexOfHeading(hs, i) == CHOOSE k \in 1..Len(hs) : hs[k] = i

\* C2 as stated: the parent reference of a section opened at level L > 1 is
\* the number_path of the most recent earlier section at level L-1, and it is
\* absent when L = 1.
C2_ParentIsLastAtLevelAbove ==
    LET lv == BodyLevels
        hs == HeadingSeq(lv)
        all == AllSections
        paths == Paths
        parents == Parents
    IN  \A k \in 1..Len(all) :
            LET L == all[k].level
                j == IF L > 1 THEN LastAtLevel(lv, hs[k], L - 1) ELSE 0
            IN  /\ L = 1 => parents[k] = Nothing
                /\ j # 0 => parents[k] = Some(paths[IndexOfHeading(hs, j)])

\* C2 amended: the parent reference of a section opened at level L > 1 is the
\* number_path of the most recent earlier section at level L-1 when no
\* heading shallower than L-1 occurs between the two; it is absent
\* otherwise (L = 1, no earlier section at level L-1, or a shallower heading
\* in between).
C2_ParentInCurrentBranch ==
    LET lv == BodyLevels
        hs == HeadingSeq(lv)
        all == AllSections
        paths == Paths
        parents == Parents
    IN  \A k \in 1..Len(all) :
            LET L == all[k].level
                i == hs[k]
                j == IF L > 1 THEN LastAtLevel(lv, i, L - 1) ELSE 0
                inBranch == /\ j # 0
                            /\ \A h \in (j + 1)..(i - 1) : lv[h] = 0 \/ lv[h] >= L - 1
            IN  parents[k] = IF inBranch THEN Some(paths[IndexOfHeading(hs, j)]) ELSE Nothing

\* C2 witness: H1, H2, H2, H1 parsed to the end, with parents none, 1, 1, none
C2_Witness ==
    /\ pc = "done"
    /\ HeadingLevels(BodyLevels) = <<1, 2, 2, 1>>
    /\ Parents = <<Nothing, Some(<<"1">>), Some(<<"1">>), Nothing>>

\* C4: in heading-style mode no two sections have the same number_path, also
\* when levels are skipped.
C4_UniqueHeadingPaths ==
    LET paths == Paths
    IN  \A a, b \in 1..Len(paths) : a # b => paths[a] # paths[b]

\* C4 witness: a document that starts with a heading deeper than level 1 and
\* has at least four sections
C4_Witness ==
    /\ pc = "done"
    /\ Len(sections) >= 4
    /\ sections[1].level > 1
    /\ \E k \in 2..Len(sections) : sections[k].level > sections[k - 1].level + 1

\* C3: over any sequence of get_number_info calls on one extractor the
\* number_path values returned are pairwise distinct.
C3_ReturnedPathsDistinct ==
    \A a, b \in 1..Len(returned) :
        (a # b /\ returned[a] # None /\ returned[b] # None)
            => returned[a].number_path # returned[b].number_path

\* C3 witness: three level-0 paragraphs each generated the path 1 (lists
\* without a template, or with the template %1.); they were returned as 1,
\* 1.1 and 1.2, and every returned path is in the registry
C3_Witness ==
    /\ Len(returned) >= 3
    /\ \E a, b, c \in 1..Len(returned) :
          /\ a < b /\ b < c
          /\ returned[a] # None /\ returned[b] # None /\ returned[c] # None
          /\ returned[a].ilvl = 0 /\ returned[b].ilvl = 0 /\ returned[c].ilvl = 0
          /\ returned[a].number_path = <<"1">>
          /\ returned[b].number_path = <<"1", ".", "1">>
          /\ returned[c].number_path = <<"1", ".", "2">>
          /\ {returned[a].number_path, returned[b].number_path, returned[c].number_path}
                \subseteq used_paths

\* what the loop body makes of the element at position i, given the heading
\* levels lv: "heading", "item" (a list paragraph with text, with its level
\* and its list: list id and list type), "text" (a paragraph with text that
\* is no list item) or "other" (anything else)
\* what the loop takes the body element at position i for: a heading, a list
\* item with its level and list (id and type), a text paragraph, or other
ElementInfo(lv, i) ==
    LET e == body[i]
    IN  IF lv[i] # 0 THEN [kind |-> "heading"]
        ELSE IF e.kind = "p" /\ e.text /\ e.numPr # None
        THEN [kind |-> "item", ilvl |-> e.numPr.ilvl,
              list |-> <<e.numPr.num_id,
                         GetListTypeFromNumId(TRUE, abstract_nums, num_to_abstract,
                                              e.numPr.num_id)>>]
        ELSE IF e.kind = "p" /\ e.text THEN [kind |-> "text"]
        ELSE [kind |-> "other"]

\* ElementInfo of every body position
BodyInfo(lv) == Listed([i \in 1..Len(body) |-> ElementInfo(lv, i)], Len(body))

\* position k ends the list that the list item at position i continues: a
\* heading, a paragraph with text that is no list item, or an item of another list
BreaksList(info, k, i) ==
    \/ info[k].kind \in {"heading", "text"}
    \/ info[k].kind = "item" /\ info[k].list # info[i].list

\* the first position of the run of list items that position i belongs to
RunStart(info, i) ==
    LET breakers == {k \in 1..(i - 1) : BreaksList(info, k, i)}
    IN  IF breakers = {} THEN 1
        ELSE 1 + CHOOSE k \in breakers : \A h \in breakers : h <= k

\* a section is open when position i is read
InOpenSection(info, i) == \E h \in 1..(i - 1) : info[h].kind = "heading"

\* the number of items at level l in the run of position i, up to i, since
\* the last item shallower than l
ItemsSince(info, i, l) ==
    LET start == RunStart(info, i)
    IN  Cardinality({j \in start..i :
            /\ info[j].kind = "item" /\ InOpenSection(info, j)
            /\ info[j].ilvl = l
            /\ \A k \in (j + 1)..i : info[k].kind = "item" => info[k].ilvl >= l})

\* the marked paragraphs of all sections whose plain text is that of position i
MarkedAt(all, i) ==
    UNION {{all[n].marked_paragraphs[k] :
               k \in {x \in 1..Len(all[n].paragraphs) : all[n].paragraphs[x] = TextOf(i)}} :
           n \in 1..Len(all)}

\* C5: within one open section and one list, an item at level L gets the
\* counter previous(L) + 1 (1 on first touch), the counters deeper than L are
\* cleared and the shallower ones kept: the marker of every ordered item is
\* the number of items of its level since the last shallower item, the
\* remembered counters are exactly those of the levels up to L that were
\* touched since, 3 items at level 0, 2 at level 1 and 1 at level 0 are marked
\* <1>, <2>, <3>, <1>, <2>, <4>, and a return to level 1 starts again at 1.
C5_ListCounters ==
    LET lv == BodyLevels
        info == BodyInfo(lv)
        all == AllSections
        n == Len(body)
    IN  /\ \A i \in 1..n :
              (info[i].kind = "item" /\ InOpenSection(info, i) /\ info[i].list[2] = "ordered") =>
                  MarkedAt(all, i) =
                      {Repeat(<<" ", " ">>, info[i].ilvl) \o <<"<">>
                         \o Str(ItemsSince(info, i, info[i].ilvl)) \o <<">", " ">>
                         \o TextOf(i)}
        /\ (n > 0 /\ pc = "loop" /\ info[n].kind = "item" /\ InOpenSection(info, n)) =>
              /\ DOMAIN list_state.counters =
                    {l \in 0..info[n].ilvl : ItemsSince(info, n, l) > 0}
              /\ \A l \in DOMAIN list_state.counters :
                    list_state.counters[l] = ItemsSince(info, n, l)
        /\ body = <<H(1), ListItem(1, 0), ListItem(1, 0), ListItem(1, 0),
                    ListItem(1, 1), ListItem(1, 1), ListItem(1, 0)>> =>
              all[1].marked_paragraphs =
                  << <<"<", "1", ">", " ", "t", "2">>,
                     <<"<", "2", ">", " ", "t", "3">>,
                     <<"<", "3", ">", " ", "t", "4">>,
                     <<" ", " ", "<", "1", ">", " ", "t", "5">>,
                     <<" ", " ", "<", "2", ">", " ", "t", "6">>,
                     <<"<", "4", ">", " ", "t", "7">> >>
        /\ body = <<H(1), ListItem(1, 0), ListItem(1, 1), ListItem(1, 1),
                    ListItem(1, 0), ListItem(1, 1)>> =>
              all[1].marked_paragraphs[5] = <<" ", " ", "<", "1", ">", " ", "t", "6">>

\* C5 witness: a heading, then 3 items at level 0, 2 at level 1 and 1 at
\* level 0 were parsed to the end
C5_Witness ==
    /\ pc = "done"
    /\ body = <<H(1), ListItem(1, 0), ListItem(1, 0), ListItem(1, 0),
                ListItem(1, 1), ListItem(1, 1), ListItem(1, 0)>>
    /\ Len(sections) = 1
    /\ Len(sections[1].marked_paragraphs) = 6

\* the number of times the image img occurs in the images lists of the sections all
AttachedCount(all, img) ==
    Cardinality({x \in (1..Len(all)) \X (1..Len(images)) :
                    /\ x[2] <= Len(all[x[1]].images)
                    /\ all[x[1]].images[x[2]] = img})

\* the number of image content items of the sections all that hold img
ImageItemCount(all, img) ==
    Cardinality({x \in (1..Len(all)) \X (1..(2 * body_limit)) :
                    /\ x[2] <= Len(all[x[1]].content_items)
                    /\ all[x[1]].content_items[x[2]].type = "image"
                    /\ all[x[1]].content_items[x[2]].data = img})

\* C6: in every state of parse_by_heading each extracted image is attached at
\* most once in the whole document, in the images lists and in the content
\* items, also when its relationship is referenced by several paragraphs or
\* several times in one paragraph.
C6_ImageAttachedAtMostOnce ==
    LET all == AllSections
    IN  \A m \in 1..Len(images) :
            /\ AttachedCount(all, images[m]) <= 1
            /\ ImageItemCount(all, images[m]) <= 1
            /\ \A n \in 1..Len(all) : Len(all[n].images) <= Len(images)

\* C6 witness: relationship 1 is referenced twice in a paragraph of the first
\* section and again in the second section; its image is attached once
C6_Witness ==
    /\ pc = "done"
    /\ body = <<H(1), TextWithPicture(<<1, 1>>), H(1), TextWithPicture(<<1>>)>>
    /\ sections[1].images = <<images[1]>>
    /\ sections[2].images = <<>>
    /\ ImageItemCount(sections, images[1]) = 1

\* C7 as stated: for every paragraph that is no heading and is processed
\* while a section is open, each image it references that is not yet attached
\* to any section is attached to the current section as one image content
\* item, whatever paragraphs referenced the image before.
C7_UnattachedImageIsAttached ==
    [][LET e == body'[Len(body')]
           rel_map == BuildRelToImage(PackageRels, images)
       IN  (/\ Len(body') = Len(body) + 1
            /\ current_section # None
            /\ e.kind = "p" /\ e.drawing
            /\ GetHeadingLevel(e.style) = 0)
           => \A b \in Range(e.blips) :
                 (b \in DOMAIN rel_map /\ AttachedCount(AllSections, rel_map[b]) = 0)
                    => /\ \E k \in 1..Len(current_section'.images) :
                             current_section'.images[k] = rel_map[b]
                       /\ ImageItemCount(<<current_section'>>, rel_map[b]) = 1]_vars

\* C8: when no level template is resolved for a list id (no numbering part,
\* unknown list id, missing abstract definition), the list paragraphs at
\* level 0 of an open section are marked as ordered items with the sequential
\* decimal markers <1>, <2>, <3>, ...
C8_FallbackOrderedMarkers ==
    LET lv == BodyLevels
        info == BodyInfo(lv)
        all == AllSections
    IN  /\ \A i \in 1..Len(body) :
              (/\ info[i].kind = "item" /\ InOpenSection(info, i)
               /\ info[i].ilvl = 0
               /\ GetLevelDef(abstract_nums, num_to_abstract, info[i].list[1], 0) = None)
              => MarkedAt(all, i) =
                    {<<"<">> \o Str(ItemsSince(info, i, 0)) \o <<">", " ">> \o TextOf(i)}
        /\ (/\ DOMAIN abstract_nums = {}
            /\ body = <<H(1), ListItem(0, 0), ListItem(0, 0), ListItem(0, 0)>>)
           => all[1].marked_paragraphs =
                 << <<"<", "1", ">", " ", "t", "2">>,
                    <<"<", "2", ">", " ", "t", "3">>,
                    <<"<", "3", ">", " ", "t", "4">> >>

\* C8 witness: a package without numbering part, a heading and three list
\* paragraphs at level 0, parsed to the end
C8_Witness ==
    /\ pc = "done"
    /\ DOMAIN abstract_nums = {} /\ DOMAIN num_to_abstract = {}
    /\ body = <<H(1), ListItem(0, 0), ListItem(0, 0), ListItem(0, 0)>>
    /\ Len(sections) = 1
    /\ Len(sections[1].marked_paragraphs) = 3

\* t is a suffix of m
IsSuffix(t, m) == Len(m) >= Len(t) /\ SubSeq(m, Len(m) - Len(t) + 1, Len(m)) = t

\* the position of the first heading (Len + 1: none)
FirstHeading(lv) ==
    LET hs == {i \in 1..Len(lv) : lv[i] # 0}
    IN  IF hs = {} THEN Len(lv) + 1 ELSE CHOOSE i \in hs : \A h \in hs : i <= h

\* the number of content items of the given type in the sections all
ItemCount(all, type) ==
    Cardinality({x \in (1..Len(all)) \X (1..(2 * body_limit)) :
                    /\ x[2] <= Len(all[x[1]].content_items)
                    /\ all[x[1]].content_items[x[2]].type = type})

\* C9: whatever occurs in the body before the first heading is discarded:
\* the text of such a paragraph (plain or list item) is in no section's
\* paragraphs, marked_paragraphs or content items, every table and image of
\* the sections comes from an element after the first heading, and the
\* tables lists stay empty.
C9_ContentBeforeFirstHeadingDiscarded ==
    LET lv == BodyLevels
        first == FirstHeading(lv)
        all == AllSections
        rel_map == BuildRelToImage(PackageRels, images)
        laterFiles == {rel_map[b].filename :
                          b \in UNION {IF body[i].kind = "p" /\ body[i].drawing
                                       THEN Range(body[i].blips) \cap DOMAIN rel_map
                                       ELSE {} : i \in (first + 1)..Len(body)}}
    IN  /\ \A i \in 1..(first - 1) : \A n \in 1..Len(all) :
              /\ \A k \in 1..Len(all[n].paragraphs) : all[n].paragraphs[k] # TextOf(i)
              /\ \A k \in 1..Len(all[n].marked_paragraphs) :
                    ~IsSuffix(TextOf(i), all[n].marked_paragraphs[k])
              /\ \A k \in 1..Len(all[n].content_items) :
                    all[n].content_items[k].type = "paragraph"
                       => all[n].content_items[k].data # TextOf(i)
        /\ ItemCount(all, "table") =
              Cardinality({i \in (first + 1)..Len(body) :
                              body[i].kind = "tbl" /\ body[i].rows # <<>>})
        /\ ItemCount(all, "paragraph") =
              Cardinality({i \in (first + 1)..Len(body) :
                              body[i].kind = "p" /\ body[i].text /\ lv[i] = 0})
        /\ \A n \in 1..Len(all) :
              /\ all[n].tables = <<>>
              /\ \A k \in 1..Len(all[n].images) : all[n].images[k].filename \in laterFiles
              /\ \A k \in 1..Len(all[n].content_items) :
                    all[n].content_items[k].type = "image"
                       => all[n].content_items[k].data.filename \in laterFiles

\* C9 witness: a text or list paragraph and a table or picture stand before
\* the first heading, and the section of that heading has content
C9_Witness ==
    /\ pc = "done"
    /\ Len(body) = 4
    /\ body[1] \in {PlainText, ListItem(1, 0)}
    /\ body[2] \in {Table1, Picture(<<1>>)}
    /\ body[3] = H(1)
    /\ Len(sections) = 1
    /\ Len(sections[1].content_items) = 1

\* C10 as stated: the returned document has as many sections as the body has
\* paragraphs whose style classifies them as headings.
C10_SectionPerStyledHeading ==
    pc = "done" =>
        Len(sections) = Cardinality({i \in 1..Len(body) : LevelAt(i) # 0})

\* C10 amended: at every moment the sections opened so far are, in order,
\* those of the heading-styled paragraphs that have text or a drawing (a
\* heading paragraph with neither is skipped), one section each with the
\* paragraph's level and text as title; when the document is returned no
\* section is left open and each is in the result exactly once.
C10_SectionPerReadHeading ==
    LET lv == BodyLevels
        hs == HeadingSeq(lv)
        all == AllSections
    IN  /\ Len(all) = Len(hs)
        /\ \A k \in 1..Len(all) :
              /\ all[k].level = lv[hs[k]]
              /\ all[k].title = (IF body[hs[k]].text THEN TextOf(hs[k]) ELSE <<>>)
        /\ pc = "done" => (current_section = None /\ Len(sections) = Len(hs))

\* C10 witness: two headings with text, one heading-styled paragraph without
\* text in between, parsed to the end into two sections
C10_Witness ==
    /\ pc = "done"
    /\ Len(sections) = 2
    /\ \E i \in 1..Len(body) : LevelAt(i) # 0 /\ ~body[i].text /\ ~body[i].drawing
    /\ body[1] = H(1)
    /\ body[Len(body)] \in {H(1), H(2)}

\* the parse runs or ran in native-numbering mode
NativeMode == pc \in {"native", "parsed", "raised"}

\* the body positions of the paragraphs whose text is the title of sec
HeadingPositions(sec) ==
    LET title == IF NativeMode THEN sec.title[1] ELSE sec.title
    IN  {i \in 1..Len(body) : body[i].kind = "p" /\ body[i].text /\ TextOf(i) = title}

\* C11: in both parsing modes the sections are in body order, while the
\* document is read and when it is returned: every section stems from one
\* heading paragraph, and of two sections the one with the smaller index has
\* the earlier heading.
C11_SectionsInBodyOrder ==
    LET all == AllSections
    IN  /\ \A a \in 1..Len(all) : Cardinality(HeadingPositions(all[a])) = 1
        /\ \A a, b \in 1..Len(all) :
              a < b => \A i \in HeadingPositions(all[a]) :
                          \A j \in HeadingPositions(all[b]) : i < j

\* C11 witness: a document with three headings and other elements was
\* returned with three sections
C11_Witness ==
    /\ pc = "done"
    /\ Len(sections) = 3
    /\ Len(body) = 4
    /\ \E i \in 1..Len(body) : LevelAt(i) = 0

\* the numbered paragraphs of the body: those with a numbering reference
NumberedPositions == {i \in 1..Len(body) : body[i].kind = "p" /\ body[i].numPr # None}

\* C13 as stated: parse runs to completion on every element stream, and the
\* document it returns has one section per numbered paragraph, whose level
\* is the number of dots in its number_path and whose parent path is the
\* number_path without its last component (absent at level 0).
C13_NativeParseReturnsSections ==
    /\ pc # "raised"
    /\ pc = "parsed" =>
          /\ Len(sections) = Cardinality(NumberedPositions)
          /\ \A k \in 1..Len(sections) :
                /\ sections[k].level = Count(sections[k].number_path, ".")
                /\ sections[k].parent =
                      (IF sections[k].level = 0 THEN Nothing
                       ELSE Some(RSplitLast(sections[k].number_path)))

\* the images that the blips of the paragraph at position i resolve to
ReferencedAt(i) ==
    LET rel_map == BuildRelToImage(PackageRels, images)
    IN  IF body[i].kind = "p" /\ body[i].drawing
        THEN {rel_map[b] : b \in Range(body[i].blips) \cap DOMAIN rel_map}
        ELSE {}

RECURSIVE InBlipOrder(_, _, _)
\* the images of the set imgs in the order of their first blip in blips
InBlipOrder(blips, rel_map, imgs) ==
    IF blips = <<>> THEN <<>>
    ELSE LET b == Head(blips)
             here == b \in DOMAIN rel_map /\ rel_map[b] \in imgs
         IN  (IF here THEN <<rel_map[b]>> ELSE <<>>)
             \o InBlipOrder(Tail(blips), rel_map, IF here THEN imgs \ {rel_map[b]} ELSE imgs)

\* the content items that the body element at position i contributes to the
\* section sec whose heading is at position h: its text, then those images
\* of the section that it is the first element after h to reference; or its
\* rendered table
ItemsAt(sec, h, i) ==
    LET e == body[i]
    IN  IF e.kind = "tbl"
        THEN (IF e.rows # <<>> THEN <<ContentItem("table", ProcessTableAndReturn(e))>> ELSE <<>>)
        ELSE IF e.kind = "p"
        THEN (IF e.text THEN <<ContentItem("paragraph", TextOf(i))>> ELSE <<>>)
             \o LET mine == {img \in ReferencedAt(i) :
                               /\ \E x \in 1..Len(sec.images) : sec.images[x] = img
                               /\ \A j \in (h + 1)..(i - 1) : img \notin ReferencedAt(j)}
                    ordered == InBlipOrder(e.blips, BuildRelToImage(PackageRels, images), mine)
                IN  Listed([x \in 1..Len(ordered) |-> ContentItem("image", ordered[x])],
                           Len(ordered))
        ELSE <<>>

RECURSIVE ContentBetween(_, _, _, _)
\* the content items of the elements at positions i..last, in body order
ContentBetween(sec, h, i, last) ==
    IF i > last THEN <<>>
    ELSE ItemsAt(sec, h, i) \o ContentBetween(sec, h, i + 1, last)

\* C12: the content_items of every section are the items of the body
\* elements between its heading and the next heading, in body order (of one
\* paragraph: its text, then its images): no later element precedes an
\* earlier one, and every paragraph and image attached to the section occurs
\* in the sequence.
C12_ContentItemsInBodyOrder ==
    LET lv == BodyLevels
        hs == HeadingSeq(lv)
        all == AllSections
    IN  /\ Len(all) = Len(hs)
        /\ \A k \in 1..Len(all) :
              LET last == IF k < Len(hs) THEN hs[k + 1] - 1 ELSE Len(body)
                  items == all[k].content_items
              IN  /\ items = ContentBetween(all[k], hs[k], hs[k] + 1, last)
                  /\ \A x \in 1..Len(all[k].paragraphs) :
                        \E y \in 1..Len(items) :
                           items[y] = ContentItem("paragraph", all[k].paragraphs[x])
                  /\ \A x \in 1..Len(all[k].images) :
                        \E y \in 1..Len(items) :
                           items[y] = ContentItem("image", all[k].images[x])

\* C12 witness: a section with a paragraph that has text and two pictures, a
\* table and a picture paragraph was returned with its content items
C12_Witness ==
    /\ pc = "done"
    /\ body = <<H(1), TextWithPicture(<<1, 2>>), Table1, Picture(<<2>>)>>
    /\ Len(sections) = 1
    /\ Len(sections[1].content_items) = 4
    /\ sections[1].content_items[1].type = "paragraph"
    /\ sections[1].content_items[4].type = "table"

\* a step receives a request
ReceivesRequest == request_count' = request_count + 1

\* the request received in such a step: the upload that parse_document
\* starts to parse, or the request that is answered at once
Received == IF upload = None /\ upload' # None THEN upload' ELSE response'.request

\* the step changes nothing of the parse state and nothing stored
NothingParsedOrStored ==
    /\ db' = db
    /\ upload' = upload
    /\ pc' = pc
    /\ <<sections, current_section, body>>' = <<sections, current_section, body>>

\* C14: an upload with a valid name and size whose package cannot be loaded
\* is answered with one response of status 500 in the step that receives it:
\* no walk is started and no ParsedDocument comes to exist, and no document
\* or section record is stored.
C14_LoadFailureIsOne500 ==
    [][(/\ ReceivesRequest
        /\ Received.kind = "parse"
        /\ Received.filename # <<>>
        /\ IsSuffix(<<".", "d", "o", "c", "x">>, Lower(Received.filename))
        /\ Received.content.size_mb <= max_file_size_mb
        /\ ~Received.content.loadable)
       => /\ response' = Response(Received, 500)
          /\ NothingParsedOrStored]_vars

\* C14 witness: an upload a.docx that does not load was answered with 500
\* and the seeded database is as it was
C14_Witness ==
    /\ response = Response(ParseRequest(<<"a", ".", "d", "o", "c", "x">>,
                                        [loadable |-> FALSE, size_mb |-> 1]), 500)
    /\ db = SeedDb
    /\ pc = "idle"
    /\ request_count = 1

\* C18: an upload whose file name is missing or does not end in ".docx",
\* upper and lower case taken as equal, is answered with 400 in the step that
\* receives it, whatever its content: nothing is read or parsed and the
\* stored documents and sections stay as they are.
C18_BadNameIs400 ==
    [][(/\ ReceivesRequest
        /\ Received.kind = "parse"
        /\ \/ Received.filename = <<>>
           \/ ~IsSuffix(<<".", "d", "o", "c", "x">>, Lower(Received.filename)))
       => /\ response' = Response(Received, 400)
          /\ NothingParsedOrStored]_vars

\* C18 witness: an upload named a.docx.txt with a loadable content was
\* answered with 400 and the seeded database is as it was
C18_Witness ==
    /\ response = Response(ParseRequest(<<"a", ".", "d", "o", "c", "x", ".", "t", "x", "t">>,
                                        [loadable |-> TRUE, size_mb |-> 1]), 400)
    /\ db = SeedDb
    /\ pc = "idle"
    /\ request_count = 1

\* the ids of the stored documents
DocumentIds(d) == {x.id : x \in d.documents}

\* the sections stored for a document id
SectionsOf(d, document_id) == {x \in d.sections : x.document_id = document_id}

\* the id was given to a document that is deleted, with all its sections
Gone(d, document_id) ==
    /\ document_id < d.next_document_id
    /\ document_id \notin DocumentIds(d)
    /\ SectionsOf(d, document_id) = {}

\* C19: get_document and delete_document for an id that is not stored, and
\* get_section_by_path for a pair without stored section, are answered with
\* 404 and change nothing stored; a delete of a stored document is answered
\* with 204 and removes the document and its sections; and what is deleted
\* stays deleted, so that every later request for the document or one of its
\* sections is answered with 404.
C19_NotStoredIs404 ==
    [][/\ (ReceivesRequest /\ upload' = upload) =>
             LET req == response'.request
             IN  /\ (req.kind \in {"get_document", "delete_document"}
                        /\ req.document_id \notin DocumentIds(db))
                       => response'.status = 404 /\ db' = db
                 /\ (req.kind = "get_section"
                        /\ \A x \in SectionsOf(db, req.document_id) :
                              x.number_path # req.number_path)
                       => response'.status = 404 /\ db' = db
                 /\ (req.kind = "delete_document" /\ req.document_id \in DocumentIds(db))
                       => response'.status = 204 /\ Gone(db', req.document_id)
       /\ \A document_id \in 1..(db.next_document_id - 1) :
             Gone(db, document_id) => Gone(db', document_id)]_vars

\* C19 witness: the seeded document was deleted and the request for its
\* section 1 was then answered with 404
C19_Witness ==
    /\ response = Response(SectionRequest(1, <<"1">>), 404)
    /\ request_count = 2
    /\ db.documents = {}
    /\ db.sections = {}
    /\ db.next_document_id = 2

\* an image relationship whose target part decodes
Decodes(rel) == rel.is_image /\ rel.decodes

RECURSIVE TextBetween(_, _)
\* the texts of the paragraphs with text at the body positions i..last
TextBetween(i, last) ==
    IF i > last THEN <<>>
    ELSE (IF body[i].kind = "p" /\ body[i].text THEN <<TextOf(i)>> ELSE <<>>)
         \o TextBetween(i + 1, last)

\* the data of the paragraph items among the content items
ParagraphItems(items) ==
    LET ps == SelectSeq(items, LAMBDA it : it.type = "paragraph")
    IN  Listed([x \in 1..Len(ps) |-> ps[x].data], Len(ps))

\* C15: an image part that fails to decode is skipped alone: the extracted
\* images are those of all other image relationships, in order, and the
\* sections of the parse (their number, number paths, levels and titles) and
\* their text content are determined by the body alone, hence the same as
\* for the package without the failing image; every attached image is one of
\* the extracted ones.
C15_DecodeFailureSkipsOneImage ==
    LET good == SelectSeq(Listed(PackageRels, NumRels), Decodes)
        lv == BodyLevels
        hs == HeadingSeq(lv)
        all == AllSections
    IN  /\ images = Listed([i \in 1..Len(good) |-> RenderedImage(good[i])], Len(good))
        /\ Len(all) = Len(hs)
        /\ \A k \in 1..Len(all) :
              LET last == IF k < Len(hs) THEN hs[k + 1] - 1 ELSE Len(body)
                  texts == TextBetween(hs[k] + 1, last)
              IN  /\ all[k].title = TextOf(hs[k])
                  /\ all[k].level = lv[hs[k]]
                  /\ all[k].number_path =
                        DotJoin([l \in 1..lv[hs[k]] |-> Str(CountSince(lv, hs[k], l))])
                  /\ all[k].paragraphs = texts
                  /\ all[k].marked_paragraphs = texts
                  /\ ParagraphItems(all[k].content_items) = texts
                  /\ \A x \in 1..Len(all[k].images) :
                        \E i \in 1..Len(images) : images[i] = all[k].images[x]

\* C15 witness: a document whose package has one failing image part among
\* others, with a paragraph that refers to the failing part and text after
\* it, was returned with its section and text
C15_Witness ==
    /\ pc = "done"
    /\ Cardinality(undecodable) = 1
    /\ Len(images) = NumRels - 1
    /\ Len(body) = 3
    /\ body[2].kind = "p" /\ body[2].drawing
    /\ Range(body[2].blips) \cap undecodable # {}
    /\ body[3].kind = "p" /\ ~body[3].drawing
    /\ Len(sections) = 1
    /\ Len(sections[1].paragraphs) = 2

\* the sections that the document d holds now: those of the list it refers
\* to, which is bound to self.sections of the instance or to nothing else
SectionsNow(d) == IF d.sections_ref = sections_id THEN sections ELSE d.sections

\* the outcome of a call by a parser that was just constructed and runs alone
ByFreshParser(elements, mode) ==
    IF mode = "heading" THEN ParseByHeading(elements) ELSE Parse(elements)

\* the call that ended on an instance at p with the sections secs has the
\* outcome of a fresh parser on the same elements
AsByFreshParser(p, elements, secs) ==
    /\ p = "done" => secs = ParseByHeading(elements).sections
    /\ p = "parsed" => ~Parse(elements).raised /\ secs = Parse(elements).sections
    /\ p = "raised" => Parse(elements).raised

\* C16: parses share no state: whenever a call ends on an instance, whatever
\* the instance parsed before and however its steps interleaved with those
\* of a call on the other instance, its outcome is that of a fresh parser on
\* the same document; and a document that was returned and kept holds the
\* sections it was returned with, which are those of a fresh parser.
C16_ParsesShareNoState ==
    /\ AsByFreshParser(pc, body, sections)
    /\ AsByFreshParser(pool.other.pc, pool.other.body, pool.other.call.sections)
    /\ \A i \in 1..Len(parsed_docs) :
          /\ SectionsNow(parsed_docs[i]) = parsed_docs[i].sections
          /\ parsed_docs[i].sections =
                ByFreshParser(parsed_docs[i].body, parsed_docs[i].mode).sections

\* C16 witness: the instance returned a document with a section, which was
\* kept, and then parsed another two-element document with a section while
\* a call on the other instance read its elements
C16_Witness ==
    /\ Len(parsed_docs) = 1
    /\ parsed_docs[1].sections # <<>>
    /\ parsed_docs[1].sections_ref # sections_id
    /\ pc = "done"
    /\ pool.mixed
    /\ Len(body) = 2
    /\ body # parsed_docs[1].body
    /\ sections # <<>>
    /\ pool.other.pc = "loop"
    /\ pool.other.body # <<>>

\* the text t stands in s at position i
StandsAt(s, i, t) == i + Len(t) - 1 <= Len(s) /\ SubSeq(s, i, i + Len(t) - 1) = t

\* the rows read so far with the character c added to the last cell
WithChar(read, c) ==
    LET r == Len(read)
        k == Len(read[r])
    IN  [read EXCEPT ![r][k].text = Append(@, c)]

RECURSIVE ReadFrom(_, _, _, _)
\* the cells of the markup s from position i on: a tr tag opens a row, a th
\* or td tag opens a cell of the row, which its end tag closes; the text of a
\* cell is what stands between its tags
ReadFrom(s, i, read, open) ==
    IF i > Len(s) THEN read
    ELSE IF StandsAt(s, i, StartTag(TrName))
    THEN ReadFrom(s, i + 4, Append(read, <<>>), FALSE)
    ELSE IF StandsAt(s, i, StartTag(ThName)) /\ read # <<>>
    THEN ReadFrom(s, i + 4,
             [read EXCEPT ![Len(read)] = Append(@, [tag |-> "th", text |-> <<>>])], TRUE)
    ELSE IF StandsAt(s, i, StartTag(TdName)) /\ read # <<>>
    THEN ReadFrom(s, i + 4,
             [read EXCEPT ![Len(read)] = Append(@, [tag |-> "td", text |-> <<>>])], TRUE)
    ELSE IF StandsAt(s, i, EndTag(ThName)) \/ StandsAt(s, i, EndTag(TdName))
            \/ StandsAt(s, i, EndTag(TrName))
    THEN ReadFrom(s, i + 5, read, FALSE)
    ELSE IF StandsAt(s, i, StartTag(TableName))
    THEN ReadFrom(s, i + 7, read, FALSE)
    ELSE IF StandsAt(s, i, EndTag(TableName))
    THEN ReadFrom(s, i + 8, read, FALSE)
    ELSE ReadFrom(s, i + 1, IF open THEN WithChar(read, s[i]) ELSE read, open)

\* the cells read back from the markup s, row by row
ReadCells(s) == ReadFrom(s, 1, <<>>, FALSE)

\* C17 as stated: the cells read back from table_to_html of a non-empty
\* rectangular grid are the cells of the grid, row by row and in order, with
\* th cells in the first row and td cells in every later row.
C17_TableHtmlRoundTrip ==
    table_html # Nothing =>
        LET read == ReadCells(table_html[1])
        IN  /\ Len(read) = Len(table_rows)
            /\ \A r \in 1..Len(table_rows) :
                  /\ Len(read[r]) = Len(table_rows[r])
                  /\ \A c \in 1..Len(table_rows[r]) :
                        /\ read[r][c].text = table_rows[r][c]
                        /\ read[r][c].tag = (IF r = 1 THEN "th" ELSE "td")

\* two grids with the same markup are the same grid
TableToHtmlInjective ==
    table_html # Nothing =>
        \A g \in Grids : TableToHtml(g) = table_html[1] => g = table_rows

\* the counts remembered for the list id n in the counters cnts
CountsOf(cnts, n) == IF n \in DOMAIN cnts THEN cnts[n] ELSE EmptyDict

\* the count that level l of list id n gets on first touch: the start value
\* of its template, 1 without a template
FirstCount(n, l) ==
    LET level_def == GetLevelDef(abstract_nums, num_to_abstract, n, l)
    IN  IF level_def = None THEN 1 ELSE level_def.start

\* C20: a get_number_info call for a paragraph with (list_id, L) leaves no
\* count for a level deeper than L under list_id, sets the count at L to its
\* previous value plus one, or to the start value of the template (1 without
\* a template) when none is remembered, and leaves the counts at the levels
\* shallower than L and the counts of every other list id as they were.
C20_CounterAdvance ==
    [][Len(returned') = Len(returned) + 1 /\ returned'[Len(returned')] # None =>
          LET n == returned'[Len(returned')].num_id
              L == returned'[Len(returned')].ilvl
              before == CountsOf(ex_counters, n)
              after == CountsOf(ex_counters', n)
          IN  /\ \A l \in DOMAIN after : l <= L
              /\ L \in DOMAIN after
              /\ after[L] = (IF L \in DOMAIN before THEN before[L] + 1 ELSE FirstCount(n, L))
              /\ \A l \in 0..(L - 1) :
                    /\ l \in DOMAIN after <=> l \in DOMAIN before
                    /\ l \in DOMAIN before => after[l] = before[l]
              /\ \A m \in (DOMAIN ex_counters \cup DOMAIN ex_counters') \ {n} :
                    /\ m \in DOMAIN ex_counters /\ m \in DOMAIN ex_counters'
                    /\ ex_counters'[m] = ex_counters[m]]_vars

\* C20 witness: level 1 of the list whose template starts it at 3 was
\* counted twice, cleared by a paragraph of level 0 and entered again, while
\* another list kept its counts
C20_Witness ==
    /\ Len(returned) = MaxCalls
    /\ \A k \in 1..Len(returned) : returned[k] # None
    /\ \E k \in 1..(Len(returned) - 2) :
          /\ returned[k].num_id = 2 /\ returned[k].ilvl = 1
          /\ returned[k + 1].num_id = 2 /\ returned[k + 1].ilvl = 0
          /\ returned[k + 2].num_id = 2 /\ returned[k + 2].ilvl = 1
    /\ 2 \in DOMAIN ex_counters
    /\ 1 \in DOMAIN ex_counters[2]
    /\ ex_counters[2][1] = 3
    /\ 1 \in DOMAIN ex_counters

(***************************************************************************)
(* C21: template rendering.                                                *)
(***************************************************************************)

RECURSIVE Rendered(_, _, _, _)
\* the template read from position i on, every placeholder %k with
\* 1 <= k <= ilvl + 1 replaced by the count of level k - 1
Rendered(template, i, count, ilvl) ==
    IF i > Len(template) THEN <<>>
    ELSE IF template[i] = "%" /\ i < Len(template) /\ IsDigit(template[i + 1])
         THEN LET e == DigitRunEnd(template, i + 1)
                  k == IntOf(SubSeq(template, i + 1, e))
              IN  (IF k >= 1 /\ k <= ilvl + 1 THEN Str(count[k - 1])
                   ELSE SubSeq(template, i, e))
                  \o Rendered(template, e + 1, count, ilvl)
         ELSE <<template[i]>> \o Rendered(template, i + 1, count, ilvl)

\* the counts of levels 0..ilvl that agree with the counters cs of the list
\* on every level that has a counter (a level without a counter may show any
\* number)
CurrentCounts(cs, ilvl) ==
    {count \in [0..ilvl -> 0..(MaxCalls + 3)] :
        \A l \in 0..ilvl : l \in DOMAIN cs => count[l] = cs[l]}

\* the call that this step makes returned a NumberInfo
ReturnsInfo ==
    /\ Len(returned') = Len(returned) + 1
    /\ returned'[Len(returned')] # None

\* C21: for a paragraph at level L of a list whose level has a template, the
\* path generated is the template with every placeholder %k, k <= L + 1,
\* replaced by the current count of level k - 1 of the same list and the
\* trailing dots stripped, whatever paragraphs came before, also when the
\* first paragraph of the list is at a level deeper than 0.
C21_TemplateRendering ==
    [][(pc = "idle" /\ ReturnsInfo) =>
        LET info == returned'[Len(returned')]
            level_def == GetLevelDef(abstract_nums, num_to_abstract,
                                     info.num_id, info.ilvl)
        IN  level_def # None =>
                \E count \in CurrentCounts(ex_counters'[info.num_id], info.ilvl) :
                    info.number_path =
                        UniquePath(RStripDots(Rendered(level_def.lvl_text, 1,
                                                       count, info.ilvl)),
                                   used_paths)]_vars

\* levels in order: the statement of C21 for the calls at which every
\* level 0..L of the list has a counter
TemplateRenderingAllLevelsCounted ==
    [][(pc = "idle" /\ ReturnsInfo) =>
        LET info == returned'[Len(returned')]
            level_def == GetLevelDef(abstract_nums, num_to_abstract,
                                     info.num_id, info.ilvl)
            cs == ex_counters'[info.num_id]
        IN  (level_def # None /\ \A l \in 0..info.ilvl : l \in DOMAIN cs) =>
                info.number_path =
                    UniquePath(RStripDots(Rendered(level_def.lvl_text, 1,
                                                   cs, info.ilvl)),
                               used_paths)]_vars

(***************************************************************************)
(* C22: the path of a list level without a template.                       *)
(***************************************************************************)

\* the counts of levels 0..ilvl as strings, one component per level
Components(count, ilvl) == [i \in 1..(ilvl + 1) |-> Str(count[i - 1])]

\* C22: when no level template is resolved for (list_id, L), get_number_info
\* returns a NumberInfo and the path it builds before duplicate handling is
\* the dot-joined sequence of the counts of levels 0..L, one component per
\* level.
C22_PlainPathWithoutTemplate ==
    [][(pc = "idle" /\ Len(returned') = Len(returned) + 1) =>
        \A numPr \in NumPrs \ {None} :
            (/\ GetNumberInfo(numPr)
             /\ GetLevelDef(abstract_nums, num_to_abstract,
                            numPr.num_id, numPr.ilvl) = None)
            => /\ ReturnsInfo
               /\ \E count \in CurrentCounts(ex_counters'[numPr.num_id], numPr.ilvl) :
                     returned'[Len(returned')].number_path =
                         UniquePath(DotJoin(Components(count, numPr.ilvl)),
                                    used_paths)]_vars

\* levels in order: the statement of C22 for the calls at which every level
\* 0..L of the list has a counter
PlainPathAllLevelsCounted ==
    [][(pc = "idle" /\ Len(returned') = Len(returned) + 1) =>
        \A numPr \in NumPrs \ {None} :
            LET cs == ex_counters'[numPr.num_id]
            IN  (/\ GetNumberInfo(numPr)
                 /\ GetLevelDef(abstract_nums, num_to_abstract,
                                numPr.num_id, numPr.ilvl) = None
                 /\ \A l \in 0..numPr.ilvl : l \in DOMAIN cs)
                => /\ ReturnsInfo
                   /\ returned'[Len(returned')].number_path =
                          UniquePath(DotJoin(Components(cs, numPr.ilvl)),
                                     used_paths)]_vars

(***************************************************************************)
(* C23: duplicate paths.                                                   *)
(***************************************************************************)

RECURSIVE GeneratedBy(_, _, _)
\* the paths generated, before duplicate handling, by the calls whose results
\* are calls[i..] when the counters are cnts before call i: Some(path) for a
\* call that returned a NumberInfo, Nothing for one that returned None
GeneratedBy(calls, i, cnts) ==
    IF i > Len(calls) THEN <<>>
    ELSE IF calls[i] = None THEN <<Nothing>> \o GeneratedBy(calls, i + 1, cnts)
    ELSE LET numId == calls[i].num_id
             ilvl == calls[i].ilvl
             level_def == GetLevelDef(abstract_nums, num_to_abstract, numId, ilvl)
             cs == Advance(CountsOf(cnts, numId), ilvl,
                           IF level_def = None THEN 1 ELSE level_def.start)
         IN  <<Some(GeneratedPath(level_def, cs, ilvl))>>
             \o GeneratedBy(calls, i + 1,
                            [n \in (DOMAIN cnts) \cup {numId} |->
                                IF n = numId THEN cs ELSE cnts[n]])

\* the generated paths of the calls made so far on the extractor
Generated == GeneratedBy(returned, 1, EmptyDict)

\* the paths returned by the calls before call i
ReturnedBefore(i) ==
    {returned[j].number_path : j \in {k \in 1..(i - 1) : returned[k] # None}}

\* the paths generated by the calls before call i
GeneratedBefore(gen, i) ==
    {gen[j][1] : j \in {k \in 1..(i - 1) : gen[k] # Nothing}}

\* path is p followed by "." and the smallest positive integer k such that p.k
\* is not in the registry
SmallestFreeSuffix(path, p, registry) ==
    \E k \in 1..(MaxCalls + 1) :
        /\ path = p \o <<".">> \o Str(k)
        /\ path \notin registry
        /\ \A j \in 1..(k - 1) : (p \o <<".">> \o Str(j)) \in registry

\* C23 as stated: the first paragraph that generates a path p gets p
\* unchanged; a later paragraph that generates a path already in the registry
\* gets p.k for the smallest positive k such that p.k is not in the registry;
\* every returned path is in the registry.
C23_FirstGeneratedUnchanged ==
    LET gen == Generated
    IN  \A i \in 1..Len(returned) :
            returned[i] # None =>
                LET p == gen[i][1]
                    path == returned[i].number_path
                IN  /\ p \notin GeneratedBefore(gen, i) => path = p
                    /\ p \in ReturnedBefore(i)
                          => SmallestFreeSuffix(path, p, ReturnedBefore(i))
                    /\ path \in used_paths

\* C23, amended: a paragraph that generates a path p that is not in the
\* registry gets p unchanged; one that generates a path in the registry (put
\* there as a generated or as a suffixed path) gets p.k for the smallest
\* positive k such that p.k is not in the registry; the registry is the set
\* of the paths returned so far.
C23_DuplicatePathSuffix ==
    LET gen == Generated
    IN  /\ used_paths = ReturnedBefore(Len(returned) + 1)
        /\ \A i \in 1..Len(returned) :
              returned[i] # None =>
                  LET p == gen[i][1]
                      path == returned[i].number_path
                  IN  /\ p \notin ReturnedBefore(i) => path = p
                      /\ p \in ReturnedBefore(i)
                            => SmallestFreeSuffix(path, p, ReturnedBefore(i))

\* C23 witness: a call generated the path 1.1 for the first time while 1.1
\* was in the registry as the suffixed path of an earlier call, and was
\* returned 1.1.1; another call generated a path for the third time and was
\* returned the suffix 2
C23_Witness ==
    LET gen == Generated
    IN  \E i \in 1..Len(returned) :
            /\ returned[i] # None
            /\ gen[i][1] = <<"1", ".", "1">>
            /\ gen[i][1] \notin GeneratedBefore(gen, i)
            /\ returned[i].number_path = <<"1", ".", "1", ".", "1">>
            /\ \E j \in 1..Len(returned) :
                  /\ returned[j] # None
                  /\ gen[j][1] = <<"1">>
                  /\ returned[j].number_path = <<"1", ".", "2">>

(***************************************************************************)
(* C24: heading classification.                                            *)
(***************************************************************************)

\* the smallest k in 1..max_heading_level such that the lower-cased style
\* name contains "heading k"; 0 when there is none or there is no style
FirstHeadingNeedle(style) ==
    IF style = Nothing THEN 0
    ELSE LET ks == {k \in 1..max_heading_level :
                       Contains(Lower(style[1]), HeadingNeedle(k))}
         IN  IF ks = {} THEN 0 ELSE CHOOSE k \in ks : \A j \in ks : k <= j

\* for every body position the level told by the style name alone
StyleLevels ==
    Listed([i \in 1..Len(body) |->
               IF body[i].kind = "p" THEN FirstHeadingNeedle(body[i].style) ELSE 0],
           Len(body))

\* the number of entries in the paragraphs of all sections
TextCount(all) ==
    LET RECURSIVE Sum(_)
        Sum(k) == IF k = 0 THEN 0 ELSE Len(all[k].paragraphs) + Sum(k - 1)
    IN  Sum(Len(all))

HasNumericPlaceholder(lvl_text) ==
    \E i \in 1..(Len(lvl_text) - 1) : lvl_text[i] = "%" /\ IsDigit(lvl_text[i + 1])

\* the list type told by format and template: the numbered formats are
\* ordered, bullet and none are unordered, any other format goes by
\* has_placeholder
ListTypeByFormat(fmt, has_placeholder) ==
    IF fmt \in {"decimal", "roman", "upperRoman", "lowerRoman", "upperLetter",
                "lowerLetter", "chineseCounting"} THEN "ordered"
    ELSE IF fmt \in {"bullet", "none"} THEN "bullet"
    ELSE IF has_placeholder THEN "ordered"
    ELSE "bullet"

\* the level definition that the list of the last list item has for level
LastListLevelDef(level) ==
    GetLevelDef(abstract_nums, num_to_abstract, list_state.num_id[1], level)

\* C25: list type by format. For a level-0 item of a list with a level
\* definition: decimal, the roman and letter formats and chineseCounting give
\* ordered, bullet and none give unordered, and for any other format the list
\* is ordered exactly when the template holds a numeric placeholder %N (a
\* percent sign followed by a digit).
C25_ListTypeByFormat ==
    (list_state.num_id # Nothing /\ list_state.level = 0) =>
        LET level_def == LastListLevelDef(0)
        IN  level_def # None =>
                list_state.list_type =
                    Some(ListTypeByFormat(level_def.fmt,
                                          HasNumericPlaceholder(level_def.lvl_text)))

\* the statement of C25 with "the template holds a percent sign" in the place
\* of the numeric placeholder
ListTypeByFormatOrPercent ==
    (list_state.num_id # Nothing /\ list_state.level = 0) =>
        LET level_def == LastListLevelDef(0)
        IN  level_def # None =>
                list_state.list_type =
                    Some(ListTypeByFormat(level_def.fmt,
                                          "%" \in Range(level_def.lvl_text)))

\* the marker of the list item appended last to the open section: the
\* character after the indentation of its marked text
LastMarker ==
    LET marked == current_section.marked_paragraphs
        last == marked[Len(marked)]
    IN  last[2 * list_state.level + 1]

\* C26: the type of a list paragraph with list reference (list_id, L) is taken
\* from the level definition of that same (list_id, L): an item at a level
\* whose own format is bullet is marked "- " and one at a level whose own
\* format is decimal is marked "<N> ", whatever the format of level 0.
C26_ListTypeOfOwnLevel ==
    (list_state.num_id # Nothing /\ current_section # None) =>
        LET level_def == LastListLevelDef(list_state.level)
        IN  /\ (level_def # None /\ level_def.fmt = "bullet") => LastMarker = "-"
            /\ (level_def # None /\ level_def.fmt = "decimal") => LastMarker = "<"

\* the statement of C26 with level 0 of the list in the place of the
\* paragraph's own level
ListTypeOfLevelZero ==
    (list_state.num_id # Nothing /\ current_section # None) =>
        LET level_def == LastListLevelDef(0)
        IN  /\ (level_def # None /\ level_def.fmt = "bullet") => LastMarker = "-"
            /\ (level_def # None /\ level_def.fmt = "decimal") => LastMarker = "<"

(***************************************************************************)
(* C27: the marked text of a list item.                                    *)
(***************************************************************************)

\* n spaces
Spaces(n) == [i \in 1..n |-> " "]

\* the last entry of a non-empty list
Last(list) == list[Len(list)]

\* C27: the marked text of a list item at level L with counter N and text t
\* is 2 * L spaces, then "<N> " for an ordered item or "- " for an unordered
\* one, then t; the marked text of an unordered item does not depend on the
\* counter.
C27_MarkedTextOfListItem ==
    (list_state.num_id # Nothing /\ current_section # None) =>
        LET L == list_state.level
            N == list_state.counters[L]
            t == Last(current_section.paragraphs)
        IN  Last(current_section.marked_paragraphs) =
                Spaces(2 * L)
                \o (IF list_state.list_type = Some("ordered")
                    THEN <<"<">> \o Str(N) \o <<">", " ">>
                    ELSE <<"-", " ">>)
                \o t

\* C27 witness: an unordered list has its second item at level 1, marked with
\* two spaces and "- "
C27_Witness ==
    /\ list_state.num_id # Nothing /\ current_section # None
    /\ list_state.list_type = Some("bullet")
    /\ list_state.level = 1
    /\ list_state.counters[1] = 2
    /\ Last(current_section.marked_paragraphs) = <<" ", " ", "-", " ", "t", "3">>

(***************************************************************************)
(* C28: where the in-section list counters restart.                        *)
(***************************************************************************)

\* the paragraph at position k is read (it has text or a drawing) and is
\* neither a heading nor a list paragraph; with_text_only leaves out the
\* paragraphs that hold only a drawing
NonListParagraph(lv, k, with_text_only) ==
    /\ body[k].kind = "p"
    /\ lv[k] = 0
    /\ body[k].numPr = None
    /\ body[k].text \/ (body[k].drawing /\ ~with_text_only)

\* the list item at position i follows the list paragraph at position j after
\* a change of (list id, list type), a non-list paragraph or a new section
Restarts(lv, info, j, i, with_text_only) ==
    \/ info[j].list # info[i].list
    \/ \E k \in (j + 1)..(i - 1) : NonListParagraph(lv, k, with_text_only)
    \/ \E k \in (j + 1)..(i - 1) : lv[k] # 0

\* every list item of an open section that follows an earlier list paragraph
\* after a restart has the counter 1: its marked text, when the list is
\* ordered, and the counters kept when it was read last
RestartsAtOne(with_text_only) ==
    LET lv == BodyLevels
        info == BodyInfo(lv)
        all == AllSections
        n == Len(body)
    IN  \A i \in 1..n :
            (info[i].kind = "item" /\ InOpenSection(info, i)) =>
                LET before == {j \in 1..(i - 1) : info[j].kind = "item"}
                IN  before # {} =>
                        LET j == CHOOSE x \in before : \A y \in before : y <= x
                            L == info[i].ilvl
                        IN  Restarts(lv, info, j, i, with_text_only) =>
                                /\ info[i].list[2] = "ordered" =>
                                      MarkedAt(all, i) =
                                          {Spaces(2 * L) \o <<"<", "1", ">", " ">>
                                             \o TextOf(i)}
                                /\ (i = n /\ pc = "loop") =>
                                      list_state.counters = (L :> 1)

\* C28: the in-section list counters restart, so that the next list item at
\* any level gets the counter 1, whenever the (list id, list type) pair
\* differs from the previous list paragraph's, whenever a non-list paragraph,
\* with text or with only images, occurs between two list paragraphs, and
\* whenever a new section is opened between them.
C28_ListCountersRestart == RestartsAtOne(FALSE)

\* the statement of C28 for non-list paragraphs with text
ListCountersRestartAfterText == RestartsAtOne(TRUE)

(***************************************************************************)
(* C29: the text of the paragraph items of the ordered content.            *)
(***************************************************************************)

\* C29: the item appended to the ordered content of the open section carries
\* the marked text for a list item (indentation and "<N> " or "- " prefix)
\* and the plain text for a non-list paragraph: in every section the k-th
\* paragraph item of the ordered content equals the k-th entry of
\* marked_paragraphs.
C29_ContentItemsCarryMarkedText ==
    \A n \in 1..Len(AllSections) :
        ParagraphItems(AllSections[n].content_items) = AllSections[n].marked_paragraphs

\* the statement of C29 with the plain texts in the place of the marked ones
ContentItemsCarryPlainText ==
    \A n \in 1..Len(AllSections) :
        ParagraphItems(AllSections[n].content_items) = AllSections[n].paragraphs

(***************************************************************************)
(* C30: table extraction.                                                  *)
(***************************************************************************)

\* t is the text s without the spaces around it
Trimmed(s, t) ==
    /\ t = <<>> \/ (t[1] # " " /\ t[Len(t)] # " ")
    /\ \E a, b \in 0..Len(s) :
          /\ a + Len(t) + b = Len(s)
          /\ s = Spaces(a) \o t \o Spaces(b)

\* the RenderedTable rendered is that of the table element t: the row count,
\* the column count of row 0, and the trimmed text of every cell
RenderedFrom(rendered, t) ==
    /\ rendered.rows = Len(t.rows)
    /\ rendered.cols = Len(t.rows[1])
    /\ Len(rendered.json_data.content) = Len(t.rows)
    /\ \A r \in 1..Len(t.rows) :
          LET cells == rendered.json_data.content[r].content
          IN  /\ Len(cells) = Len(t.rows[r])
              /\ \A c \in 1..Len(cells) :
                    Trimmed(t.rows[r][c], cells[c].content[1].content[1].text)

\* the positions of the tables with at least one row that follow the heading
\* at position h before the next heading
TablesOfSection(h) ==
    Ascending({i \in (h + 1)..Len(body) :
        /\ body[i].kind = "tbl" /\ body[i].rows # <<>>
        /\ \A k \in (h + 1)..i : body[k].kind = "tbl"})

\* C30: a table with r >= 1 rows yields a RenderedTable with row count r, the
\* column count of row 0 (also when other rows have another number of cells)
\* and trimmed cell texts; a table without rows yields no RenderedTable and
\* adds nothing to any section: the content of every section is, in order,
\* one RenderedTable for each table with rows read while it was open.
C30_TableExtraction ==
    LET hs == Ascending({i \in 1..Len(body) : body[i].kind = "p"})
        all == AllSections
    IN  /\ Len(all) = Len(hs)
        /\ \A n \in 1..Len(all) :
              LET ts == TablesOfSection(hs[n])
                  items == all[n].content_items
              IN  /\ Len(items) = Len(ts)
                  /\ \A k \in 1..Len(ts) :
                        /\ items[k].type = "table"
                        /\ RenderedFrom(items[k].data, body[ts[k]])

\* C30 witness: a section was read with a table of two rows whose second row
\* is longer than the first, a table without rows and a table of one cell;
\* it holds two RenderedTables, the first one with 2 rows and 1 column
C30_Witness ==
    /\ Len(body) = 4 /\ body[1] = H(1)
    /\ body[2].kind = "tbl" /\ Len(body[2].rows) = 2
    /\ Len(body[2].rows[1]) = 1 /\ Len(body[2].rows[2]) = 2
    /\ body[3] = EmptyTable
    /\ body[4].kind = "tbl" /\ Len(body[4].rows) = 1
    /\ AllSections[1].content_items[1].data.rows = 2
    /\ AllSections[1].content_items[1].data.cols = 1
    /\ Len(AllSections[1].content_items) = 2

(***************************************************************************)
(* C34: after any sequence of add_heading, add_paragraph, add_image and    *)
(* add_table calls, render_json is an object of type "doc" whose content   *)
(* is the blocks in insertion order: every call that adds a block extends  *)
(* the content by that one block at its end, a heading block for           *)
(* add_heading, a paragraph block for add_paragraph, an image block for    *)
(* add_image and a table or html block for add_table; every block type is  *)
(* one of heading, paragraph, image, table, html, and no paragraph block    *)
(* has whitespace-only text (add_paragraph adds none for such a text).     *)
(***************************************************************************)
BlockTypes == {"heading", "paragraph", "image", "table", "html"}

AddedBlock == Last(RenderJson(content_blocks').content)

C34_RenderJsonInsertionOrder ==
    [][LET before == RenderJson(content_blocks).content
           after == RenderJson(content_blocks').content
       IN  /\ RenderJson(content_blocks').type = "doc"
           /\ Len(after) = Len(before) + 1
           /\ SubSeq(after, 1, Len(before)) = before
           /\ \A i \in 1..Len(after) : after[i].type \in BlockTypes
           /\ (\E text \in RenderTexts, level \in RenderLevels :
                   AddHeadingCall(text, level)) => AddedBlock.type = "heading"
           /\ (\E text \in RenderTexts : AddParagraphCall(text)) =>
                  /\ AddedBlock.type = "paragraph"
                  /\ Strip(AddedBlock.content[1].text) # <<>>
           /\ (\E image \in RenderImages : AddImageCall(image)) =>
                  AddedBlock.type = "image"
           /\ (\E table \in RenderTables : AddTableCall(table)) =>
                  AddedBlock.type \in {"table", "html"}]_vars

\* a renderer that took a heading, a paragraph and a table with block JSON
C34_Witness ==
    /\ Len(content_blocks) = MaxBlocks
    /\ content_blocks[1].type = "heading"
    /\ content_blocks[2].type = "paragraph"
    /\ content_blocks[3].type = "table"
    /\ RenderJson(content_blocks).content = content_blocks

(***************************************************************************)
(* C32: every table added with add_table appears in the rendered output:   *)
(* after the call, render_html contains the table's precomputed HTML and   *)
(* render_json ends with one table (or html passthrough) block for it.     *)
(***************************************************************************)
C32_AddedTableIsRendered ==
    [][\A table \in RenderTables :
           AddTableCall(table) =>
               /\ Contains(RenderHtml(content_blocks'), table.html)
               /\ Len(RenderJson(content_blocks').content) = Len(content_blocks) + 1
               /\ AddedBlock.type \in {"table", "html"}]_vars

\* the part that holds: the JSON side of add_table, and the markup of the
\* tables that come without block JSON
AddedTableInJson ==
    [][\A table \in RenderTables :
           AddTableCall(table) =>
               /\ Len(RenderJson(content_blocks').content) = Len(content_blocks) + 1
               /\ AddedBlock.type \in {"table", "html"}
               /\ ~Truthy(table.json_data) =>
                      Contains(RenderHtml(content_blocks'), table.html)]_vars

(***************************************************************************)
(* C31: the blocks rendered for a section, from which content_html and     *)
(* content_json are made, come in the order of the section's ordered       *)
(* content, after the heading block: when one paragraph or image precedes  *)
(* another in content_items, its block precedes the other's block.  Stated *)
(* for the items that have a block at all.                                 *)
(***************************************************************************)
\* the positions of the block rendered for a content item: a paragraph block
\* with the item's text, an image block with the item's data URI
BlocksOfItem(blocks, item) ==
    {k \in 1..Len(blocks) :
        \/ /\ item.type = "paragraph"
           /\ blocks[k].type = "paragraph"
           /\ blocks[k].content[1].text = item.data
        \/ /\ item.type = "image"
           /\ blocks[k].type = "image"
           /\ blocks[k].attrs.src = GetDataUri(item.data)}

RenderedInContentOrder(sec) ==
    LET blocks == RenderJson(SectionBlocks(sec)).content
        items == sec.content_items
    IN  /\ blocks[1].type = "heading"
        /\ \A i \in 1..Len(items) : \A j \in (i + 1)..Len(items) :
               \A ki \in BlocksOfItem(blocks, items[i]) :
                   \A kj \in BlocksOfItem(blocks, items[j]) : 1 < ki /\ ki < kj

C31_RenderedInContentOrder ==
    pc = "done" => \A s \in 1..Len(sections) : RenderedInContentOrder(sections[s])

\* what holds instead: the heading block, then a block for every paragraph
\* of the section's paragraphs, then one for every image of its images
RenderedByKind ==
    pc = "done" =>
        \A s \in 1..Len(sections) :
            LET sec == sections[s]
                blocks == SectionBlocks(sec)
                np == Len(sec.paragraphs)
            IN  /\ Len(blocks) = 1 + np + Len(sec.tables) + Len(sec.images)
                /\ sec.tables = <<>>
                /\ \A k \in 1..np : blocks[1 + k].content[1].text = sec.paragraphs[k]
                /\ \A k \in 1..Len(sec.images) :
                       blocks[1 + np + k].attrs.src = GetDataUri(sec.images[k])

(***************************************************************************)
(* C33: the heading block of a section of level L is rendered in HTML as   *)
(* <hL>text</hL>, where text is the number_path followed by a space and    *)
(* the title (the number_path alone when there is no title), and the JSON  *)
(* heading block carries the same level L and text.                        *)
(***************************************************************************)
\* the text claimed for the heading of a section
ClaimedHeadingText(sec) ==
    IF sec.title = <<>> THEN sec.number_path
    ELSE sec.number_path \o <<" ">> \o sec.title

HeadingRenderedAtLevel(sec, level) ==
    LET blocks == SectionBlocks(sec)
        name == <<"h">> \o Str(level)
    IN  /\ RenderJson(blocks).content[1].type = "heading"
        /\ RenderJson(blocks).content[1].attrs.level = level
        /\ RenderJson(blocks).content[1].content = <<TextNode(ClaimedHeadingText(sec))>>
        /\ RenderHtml(<<blocks[1]>>) =
               StartTag(name) \o ClaimedHeadingText(sec) \o EndTag(name)
        /\ RenderHtml(blocks) = RenderHtml(<<blocks[1]>>) \o RenderHtml(Tail(blocks))

C33_HeadingRenderedAtSectionLevel ==
    pc = "done" =>
        \A s \in 1..Len(sections) : HeadingRenderedAtLevel(sections[s], sections[s].level)

\* the level of the heading element of a section of level L
RenderedLevel(level) == IF level < 5 THEN level + 1 ELSE 6

\* amended: the heading is rendered one level lower, at most at level 6, for
\* the sections of every parsed document and for a section of every level
C33_HeadingRenderedOneLevelDown ==
    /\ pc = "done" =>
           \A s \in 1..Len(sections) :
               HeadingRenderedAtLevel(sections[s], RenderedLevel(sections[s].level))
    /\ \A level \in 1..max_heading_level :
           \A title \in {<<>>, <<"t">>} :
               HeadingRenderedAtLevel(
                   ParsedSection(GetHeadingLabel(level), <<"1">>, level, None, title),
                   RenderedLevel(level))

\* a parsed document with a section of level 1 with a title, one of level 1
\* without title and one of level 2
C33_Witness ==
    /\ pc = "done"
    /\ \E s \in 1..Len(sections) : sections[s].level = 1 /\ sections[s].title # <<>>
    /\ \E s \in 1..Len(sections) : sections[s].level = 1 /\ sections[s].title = <<>>
    /\ \E s \in 1..Len(sections) :
           /\ sections[s].level = 2
           /\ RenderJson(SectionBlocks(sections[s])).content[1].attrs.level = 3

(***************************************************************************)
(* C35: the block-JSON form of a table preserves the grid: for a grid with *)
(* at least one row, table_to_json gives a table block with one tableRow   *)
(* block per grid row and one tableCell block per grid cell, in the same   *)
(* order, each cell holding exactly one paragraph whose one text node is   *)
(* the grid cell's text; so the cell texts of the JSON, put through        *)
(* table_to_html, give the markup that table_to_html gives for the grid.   *)
(* Checked on the json_data and html of every table read into a section.   *)
(***************************************************************************)
\* the cell texts of a table block, row by row
JsonGrid(json) ==
    [r \in 1..Len(json.content) |->
        [c \in 1..Len(json.content[r].content) |->
            json.content[r].content[c].content[1].content[1].text]]

JsonPreservesGrid(json, grid) ==
    /\ json.type = "table"
    /\ Len(json.content) = Len(grid)
    /\ \A r \in 1..Len(grid) :
          /\ json.content[r].type = "tableRow"
          /\ Len(json.content[r].content) = Len(grid[r])
          /\ \A c \in 1..Len(grid[r]) :
                LET cell == json.content[r].content[c]
                IN  /\ cell.type = "tableCell"
                    /\ Len(cell.content) = 1
                    /\ cell.content[1].type = "paragraph"
                    /\ cell.content[1].content = <<[type |-> "text", text |-> grid[r][c]]>>
    /\ JsonGrid(json) = grid

C35_TableJsonPreservesGrid ==
    LET hs == Ascending({i \in 1..Len(body) : body[i].kind = "p"})
        all == AllSections
    IN  \A n \in 1..Len(all) :
            LET ts == TablesOfSection(hs[n])
                items == all[n].content_items
            IN  \A k \in 1..Len(items) :
                    LET grid == RowsData(body[ts[k]])
                    IN  /\ grid # <<>>
                        /\ JsonPreservesGrid(items[k].data.json_data, grid)
                        /\ TableToHtml(JsonGrid(items[k].data.json_data))
                               = items[k].data.html

\* a section holds the table read from a first row without cells and a second
\* row of one cell whose text is blank, and a ragged table after it
C35_Witness ==
    /\ Len(body) = 3 /\ body[1] = H(1)
    /\ body[2] = Tbl(<< <<>>, << <<" ">> >> >>)
    /\ body[3] = Tbl(<< << <<"a", " ">>, <<" ", "b">> >>, << <<"c">> >> >>)
    /\ Len(AllSections[1].content_items) = 2
    /\ JsonGrid(AllSections[1].content_items[1].data.json_data) = << <<>>, << <<>> >> >>
    /\ JsonGrid(AllSections[1].content_items[2].data.json_data)
           = << << <<"a">>, <<"b">> >>, << <<"c">> >> >>

(***************************************************************************)
(* C36: a paragraph with text whose numbering reference is malformed (list *)
(* detection raises AttributeError or TypeError) is treated as a plain     *)
(* paragraph: in an open section its text is appended unmarked to the      *)
(* paragraphs, the marked paragraphs and the content items, the in-section *)
(* list state is reset, the heading counters and the sections read so far  *)
(* stay, and the parse goes on to the next element.                        *)
(***************************************************************************)
C36_MalformedNumberingIsPlainText ==
    [][(/\ Len(body') = Len(body) + 1
        /\ Last(body') = MalformedListItem
        /\ current_section # None) =>
           LET text == TextOf(Len(body'))
           IN  /\ current_section'.paragraphs = Append(current_section.paragraphs, text)
               /\ current_section'.marked_paragraphs
                      = Append(current_section.marked_paragraphs, text)
               /\ current_section'.content_items
                      = Append(current_section.content_items, ContentItem("paragraph", text))
               /\ list_state' = FreshListState
               /\ pc' = "loop"
               /\ UNCHANGED <<counters, sections>>]_vars

\* a list item, a paragraph with a malformed reference and a list item were
\* read into a section: the list restarts at <1> after the paragraph
C36_Witness ==
    /\ Len(body) = 4
    /\ body[1] = H(1) /\ body[2] = ListItem(1, 0)
    /\ body[3] = MalformedListItem /\ body[4] = ListItem(1, 0)
    /\ current_section # None
    /\ current_section.marked_paragraphs
           = << <<"<", "1", ">", " ">> \o TextOf(2), TextOf(3),
                <<"<", "1", ">", " ">> \o TextOf(4) >>

(***************************************************************************)
(* C37: the two counter scopes are independent in heading-style mode.  A   *)
(* step that reads no heading paragraph (a list item, a plain paragraph,   *)
(* an image paragraph, a table, a skipped element, the end of the body)    *)
(* leaves the heading counters, the heading context and the number paths   *)
(* of the sections as they are; the number paths of the sections are a     *)
(* function of the sequence of the heading levels alone; and a step that   *)
(* opens a section leaves the list state with no list id, no list type,    *)
(* level 0 and no counters.                                                *)
(***************************************************************************)
\* the number paths of the sections of a document whose headings have the
\* given levels, in order
PathsOfLevels(levels) ==
    Listed([k \in 1..Len(levels) |->
               DotJoin([l \in 1..levels[k] |-> Str(CountSince(levels, k, l))])],
           Len(levels))

\* the number paths of the sections are those of the heading levels read
PathsFollowLevels ==
    LET levels == HeadingLevels(BodyLevels)
    IN  Paths = PathsOfLevels(levels)

\* the step reads a heading paragraph that opens a section
OpensSection ==
    /\ Len(body') = Len(body) + 1
    /\ Last(body').kind = "p"
    /\ Live(Last(body'))
    /\ GetHeadingLevel(Last(body').style) # 0

C37_CounterScopesIndependent ==
    /\ []PathsFollowLevels
    /\ [][/\ ~OpensSection =>
              /\ counters' = counters
              /\ current_context' = current_context
              /\ Paths' = Paths
          /\ OpensSection =>
              /\ list_state'.num_id = Nothing
              /\ list_state'.list_type = Nothing
              /\ list_state'.level = 0
              /\ list_state'.counters = EmptyDict
              /\ Len(Paths') = Len(Paths) + 1]_vars

\* a section with a list item whose counter is kept was open when a heading
\* of level 2 was read after a heading, a list item and a table
C37_Witness ==
    /\ Len(body) = 4
    /\ body[1] = H(1) /\ body[2] = ListItem(1, 0) /\ body[3] = Table1 /\ body[4] = H(2)
    /\ Paths = << <<"1">>, <<"1", ".", "1">> >>
    /\ list_state.counters = EmptyDict
    /\ counters[1] = 1 /\ counters[2] = 1

(***************************************************************************)
(* C38: in heading-style mode, whenever a section has a parent reference,  *)
(* the parent referenced is a section that occurs earlier in the output,   *)
(* its level is one less than the child's, the reference names the label   *)
(* and the title of that section, and its number_path is the child's       *)
(* number_path without its last component; for every heading sequence,     *)
(* also those that skip levels.                                            *)
(***************************************************************************)
\* path is parent followed by a dot and one more component
ExtendsByOneComponent(path, parent) ==
    /\ Len(path) > Len(parent) + 1
    /\ SubSeq(path, 1, Len(parent)) = parent
    /\ path[Len(parent) + 1] = "."
    /\ \A i \in (Len(parent) + 2)..Len(path) : IsDigit(path[i])

C38_ParentIsEarlierSectionOneLevelUp ==
    LET all == AllSections
    IN  \A k \in 1..Len(all) :
            all[k].parent # None =>
                /\ ExtendsByOneComponent(all[k].number_path, all[k].parent.number_path)
                /\ all[k].parent.heading = GetHeadingLabel(all[k].level - 1)
                /\ \E j \in 1..(k - 1) :
                      /\ all[j].number_path = all[k].parent.number_path
                      /\ all[j].level = all[k].level - 1
                      /\ all[j].title = all[k].parent.title
                      /\ \A i \in 1..Len(all) :
                             all[i].number_path = all[j].number_path => i = j

\* headings of levels 1, 2, 1, 3, 2, 3 were read: the first level-3 section,
\* 2.0.1, skips a level and has no parent; the last, 2.1.1, has the parent 2.1
C38_Witness ==
    /\ HeadingLevels(BodyLevels) = <<1, 2, 1, 3, 2, 3>>
    /\ Paths[4] = <<"2", ".", "0", ".", "1">>
    /\ Parents = <<Nothing, Some(<<"1">>), Nothing, Nothing, Some(<<"2">>),
                   Some(<<"2", ".", "1">>)>>

(***************************************************************************)
(* C39: a parse request for a valid file with n >= 1 sections whose hash   *)
(* is not stored completes with status 201, and storage then holds one     *)
(* document record for the hash, marked as parsed, with exactly n section  *)
(* records, of sort_order 1..n in document order; and after a parse        *)
(* request that ends in an error no document record for the file is left   *)
(* in storage.                                                             *)
(***************************************************************************)
\* the parse of a file whose hash is not stored has returned its sections
NewFileParsed ==
    /\ pc = "done" /\ pc' = "idle"
    /\ upload # None
    /\ ~\E x \in db.documents : x.file_hash = body

\* the documents stored for the file of the request being answered
StoredForFile == {x \in db'.documents : x.file_hash = body}

StoredWithSections ==
    /\ response'.status = 201
    /\ Cardinality(StoredForFile) = 1
    /\ \A doc \in StoredForFile :
          LET secs == {x \in db'.sections : x.document_id = doc.id}
          IN  /\ doc.parsed
              /\ Cardinality(secs) = Len(sections)
              /\ \A k \in 1..Len(sections) :
                    \E x \in secs : /\ x.sort_order = k
                                    /\ x.number_path = sections[k].number_path

C39_ParseStoresDocumentAndSections ==
    [][NewFileParsed =>
           /\ sections # <<>> => StoredWithSections
           /\ response'.status >= 400 => StoredForFile = {}]_vars

\* what the endpoint does for a new file with sections: status 500, and the
\* document record is left, not marked as parsed and without sections
NewFileWithSectionsFails ==
    [][(NewFileParsed /\ sections # <<>>) =>
           /\ response'.status = 500
           /\ Cardinality(StoredForFile) = 1
           /\ \A doc \in StoredForFile :
                 /\ ~doc.parsed
                 /\ ~\E x \in db'.sections : x.document_id = doc.id
           /\ db'.sections = db.sections]_vars

(***************************************************************************)
(* C40: deduplication by content hash.  When a parse request for a file    *)
(* is answered after its parse, storage holds at most one document record  *)
(* per hash, the request is answered with status 201 from the one document *)
(* stored for the hash of the file (the same document for every request    *)
(* that carries these bytes), and when a document with the hash was stored *)
(* before the request, nothing is added to storage.  Requests are handled  *)
(* one after the other, as the body of the handler runs without awaiting   *)
(* after the file is read.                                                 *)
(***************************************************************************)
\* a parse request is answered after its parse
ParseAnswered == pc = "done" /\ pc' = "idle" /\ upload # None

OneDocumentPerHash ==
    \A x, y \in db'.documents : x.file_hash = y.file_hash => x = y

C40_DeduplicationByHash ==
    [][ParseAnswered =>
           /\ OneDocumentPerHash
           /\ response'.status = 201
           /\ Cardinality(StoredForFile) = 1
           /\ (\E x \in db.documents : x.file_hash = body) => db' = db]_vars

\* what holds: one document per hash, and an upload whose hash is stored is
\* answered with 201 from storage, which it leaves as it is
StoredHashIsAnsweredFromStorage ==
    [][ParseAnswered =>
           /\ OneDocumentPerHash
           /\ Cardinality(StoredForFile) = 1
           /\ (\E x \in db.documents : x.file_hash = body) =>
                  /\ db' = db
                  /\ response'.status = 201]_vars

\* the same file with a section was uploaded twice: the first request left
\* an unparsed document without sections, the second was answered from it
RepeatedUploadAfterFailure ==
    /\ request_count = 2
    /\ pc = "idle" /\ body = <<H(1)>>
    /\ response # None /\ response.status = 201
    /\ db.sections = {}
    /\ \E x \in db.documents : x.file_hash = body /\ ~x.parsed

====
